---------------------------- MODULE Spec2Model ----------------------------
(***************************************************************************)
(* A model of the vulnerability triage core of genai-triage:               *)
(*                                                                         *)
(*   - TriageAgent.analyze_vulnerabilities and the report it builds        *)
(*     (src/src/infrastructure/services/agents/triage_agent.py),           *)
(*   - the pure business rules of TriageService                            *)
(*     (src/src/domain/services/triage_service.py),                        *)
(*   - TriageVulnerabilitiesUseCase.execute and its distribution builders  *)
(*     (src/src/application/use_cases/triage_vulnerabilities_use_case.py). *)
(*                                                                         *)
(* Each subsystem has its own specification (SpecAgent, SpecService,       *)
(* SpecUseCase); the variables of the other subsystems stay idle.          *)
(*                                                                         *)
(* Numbers.  Python floats are modelled by scaled integers:                *)
(*   confidence            in thousandths          (0.8   -> 800)          *)
(*   severity scores       in tenths               (10.0  -> 100)          *)
(*   agent risk score      as a rational num/den, num in 1/10000           *)
(* JSON values whose Python type matters to pydantic are tagged records    *)
(* (JStr, JNum, JNull, JBool).  A Python dict is a function from the keys  *)
(* it holds; dict.get(k, default) is Get.                                  *)
(***************************************************************************)
EXTENDS Integers, Sequences, FiniteSets, TLC

\* ------------------------------------------------------------------ bounds
\* Longest batch of findings handed to the agent.
MaxBatch == 3
\* Longest evidence list whose confidence is computed.
MaxEvidence == 3
\* Most evidence items of a vulnerability whose severity is scored.
MaxEvidenceCount == 5
\* Highest score (in tenths) handed to determine_severity_level.
MaxScore == 110
\* Longest list handed to TriageService.generate_remediation_plan.
MaxPlan == 3
\* Longest batch whose overall risk score is computed.
MaxRiskBatch == 3
\* Most findings of a security report that is validated.
MaxFindings == 2
\* Most recommendations of a security report that is validated.
MaxRecommendations == 2
\* Longest list of triaged vulnerabilities that is validated.
MaxTriaged == 2
\* Highest count per severity of a triage summary.
MaxCount == 1
\* tokens of a response text, all texts up to this length being tried
MaxResponse == 4
\* Most vulnerabilities of a triage report that priorities are built for.
MaxVulns == 6
\* calls made on one SimpleDependencyFactory
MaxFactoryCalls == 3
\* words joined in a severity string given to _normalize_severity
MaxWords == 2

VARIABLES
    \* TriageAgent.analyze_vulnerabilities
    security_report,        \* the dict handed to analyze_vulnerabilities
    hallazgos,              \* the findings extracted from it
    triaged_vulnerabilities,\* the list the loop appends to
    failed,                 \* history: failed[i] iff the except branch ran for finding i
    agent_pc,               \* "start" | "loop" | "done" | "raised"
    triage_report,          \* the returned TriageReport, or NoReport
    llm_calls,              \* history: the calls of llm.generate_response made
    \* TriageService (stateless): the history of its calls
    svc_call,               \* the last call: [op, arg, out], or NoCall
    svc_prev,               \* the call before it, when the two are compared
    \* TriageVulnerabilitiesUseCase: the history of its calls
    uc_call,                \* the last call: [op, arg, out], or NoCall
    \* ReportValidationService (stateless): the history of its calls
    val_call,               \* the last call: [op, arg, out], or NoCall
    val_prev,               \* the call before it, when the two are compared
    \* TriageAgent._parse_triage_response: the history of its calls
    parse_call,             \* the last call: [op, arg, out], or NoCall
    \* CompleteSecurityAnalysisUseCase: the history of the calls of its helpers
    ca_call,                \* the last call: [op, arg, out], or NoCall
    \* CompleteSecurityAnalysisUseCase.execute / execute_with_export, one run
    run_cfg,                \* [entry, export_format, exporter] of the run
    run_pc,                 \* the step the run is at, "done" or "raised"
    run_trace,              \* history: the steps taken, each with its outcome
    run_files,              \* the files written so far
    run_out,                \* what the run returned or raised, or NoCall
    \* SimpleDependencyFactory
    llm_cache,              \* self._llm_cache: cache key -> instance
    llm_made,               \* history: the instances LLMFactory made, in order
    llm_returned,           \* history: [request, instance] since the last clear
    fac_calls,              \* the number of calls made on the factory
    fac_call,               \* the last call: [op, arg, out], or NoCall
    \* SecurityAnalysisService._normalize_severity
    norm_call,              \* the last call: [op, arg, out], or NoCall
    norm_prev               \* the call before it, whose result the last one was given

agentVars == <<security_report, hallazgos, triaged_vulnerabilities, failed,
               agent_pc, triage_report, llm_calls>>

svcVars == <<svc_call, svc_prev>>

ucVars == <<uc_call>>

valVars == <<val_call, val_prev>>

parseVars == <<parse_call>>

caVars == <<ca_call>>

runVars == <<run_cfg, run_pc, run_trace, run_files, run_out>>

facVars == <<llm_cache, llm_made, llm_returned, fac_calls, fac_call>>

normVars == <<norm_call, norm_prev>>

vars == <<agentVars, svcVars, ucVars, valVars, parseVars, caVars, runVars, facVars, normVars>>

\* ------------------------------------------------------------ JSON values
JStr(s)  == [type |-> "str",  str |-> s,  num |-> 0, bool |-> FALSE]
JNum(n)  == [type |-> "num",  str |-> "", num |-> n, bool |-> FALSE]
JBool(b) == [type |-> "bool", str |-> "", num |-> 0, bool |-> b]
JNull    == [type |-> "null", str |-> "", num |-> 0, bool |-> FALSE]

\* dict.get(k, default)
Get(d, k, default) == IF k \in DOMAIN d THEN d[k] ELSE default

\* Python truthiness of a JSON scalar (used by `a or b`).
Truthy(v) ==
    CASE v.type = "str"  -> v.str # ""
      [] v.type = "num"  -> v.num # 0
      [] v.type = "bool" -> v.bool
      [] OTHER           -> FALSE

EmptyDict == [k \in {} |-> JNull]

RECURSIVE SumSeq(_)
SumSeq(s) == IF s = << >> THEN 0 ELSE Head(s) + SumSeq(Tail(s))

Min(a, b) == IF a <= b THEN a ELSE b

\* The sum of the values of a dict of counters.
RECURSIVE SumValues(_)
SumValues(d) ==
    IF DOMAIN d = {} THEN 0
    ELSE LET k == CHOOSE x \in DOMAIN d : TRUE
         IN  d[k] + SumValues([x \in DOMAIN d \ {k} |-> d[x]])


\* ================================================================ TriageAgent
\* -------------------------------------------------- inputs of the agent
\* Findings as the upstream phases emit them (dicts of JSON values).
Finding1 == [ nombre |-> JStr("n1"), descripcion |-> JStr("d1"),
              severidad |-> JStr("alta"), id |-> JStr("id1") ]
\* the dynamic-analysis format: no nombre, no descripcion, no id
Finding2 == [ categoria |-> JStr("c2"), detalles |-> JStr("det2"),
              severidad |-> JStr("baja") ]
\* a finding whose "descripcion" is JSON null
Finding3 == [ nombre |-> JStr("n3"), descripcion |-> JNull,
              severidad |-> JStr("media") ]
FindingSet == {Finding1, Finding2, Finding3}

RECURSIVE Batches(_)
Batches(n) ==
    IF n = 0 THEN { << >> }
    ELSE LET shorter == Batches(n - 1)
         IN  shorter \cup { Append(b, f) : b \in { x \in shorter : Len(x) = n - 1 },
                                           f \in FindingSet }

\* The keys analyze_vulnerabilities looks under; "analisis_pdf" stands for
\* security_report['analisis_pdf']['hallazgos_principales'].
FormatKeys == <<"hallazgos_principales", "analisis_pdf", "vulnerabilidades", "findings">>

\* The security reports the agent is started on: every batch up to MaxBatch
\* under the primary key, and the short batches under each alternate key.
SecurityReports ==
    { [hallazgos_principales |-> b] : b \in Batches(MaxBatch) }
    \cup { (FormatKeys[i] :> b) : i \in 2..4, b \in Batches(1) }
    \cup { (FormatKeys[i] :> b) @@ (FormatKeys[j] :> c) :
             i \in 1..4, j \in 2..4, b \in Batches(1), c \in Batches(1) }

\* What one call of llm.generate_response may do: raise, or answer a text.
\* A text answer is described by what _parse_triage_response finds in it:
\*   "no_json"  no '{' in the text                 (JSONParsingError, line 263)
\*   "bad_json" a span that json.loads rejects     (JSONDecodeError, line 267)
\*   "json"     a JSON object, `data`
Evidence1 == [ tipo_evidencia |-> JStr("código"), descripcion |-> JStr("e1"),
               contenido |-> JStr("x"), criticidad_evidencia |-> JStr("alto") ]
Recommendation1 == [ tipo |-> JStr("inmediata"), descripcion |-> JStr("r1") ]

ReplyRaises  == [kind |-> "raises",   data |-> EmptyDict]
ReplyNoJson  == [kind |-> "no_json",  data |-> EmptyDict]
ReplyBadJson == [kind |-> "bad_json", data |-> EmptyDict]
\* a complete, canonical answer
ReplyFull == [kind |-> "json", data |->
    [ nombre |-> JStr("llm-name"), severidad_triage |-> JStr("crítica"),
      prioridad |-> JStr("P0"), confianza_analisis |-> JNum(950),
      requiere_validacion_manual |-> JBool(FALSE),
      evidencias |-> <<Evidence1>>, recomendaciones |-> <<Recommendation1>> ]]
\* "{}": every field takes its default
ReplyEmpty == [kind |-> "json", data |-> EmptyDict]
\* free text instead of the canonical vocabulary, confidence 1.5
ReplyRaw == [kind |-> "json", data |->
    [ severidad_triage |-> JStr("critical"), prioridad |-> JStr("urgent"),
      confianza_analisis |-> JNum(1500) ]]
\* a low-confidence answer that asks for manual validation
ReplyUnsure == [kind |-> "json", data |->
    [ confianza_analisis |-> JNum(100), requiere_validacion_manual |-> JBool(TRUE) ]]
\* "severidad_triage": null
ReplyNullSeverity == [kind |-> "json", data |->
    [ severidad_triage |-> JNull, prioridad |-> JStr("P1") ]]
ReplyHigh == [kind |-> "json", data |->
    [ severidad_triage |-> JStr("alta"), prioridad |-> JStr("P1"),
      confianza_analisis |-> JNum(700) ]]
Replies == { ReplyRaises, ReplyNoJson, ReplyBadJson, ReplyFull, ReplyEmpty,
             ReplyRaw, ReplyUnsure, ReplyNullSeverity, ReplyHigh }

NoReport == [kind |-> "none"]
NoVuln   == [kind |-> "none"]

\* ------------------------------------------- _parse_triage_response
ParseTriageResponse(reply) ==
    IF reply.kind = "json" THEN [ok |-> TRUE, data |-> reply.data]
    ELSE [ok |-> FALSE, data |-> EmptyDict]

\* ------------------------------------ entities.TriagedVulnerability
\* pydantic's validation of the constructor's keyword arguments: the str
\* fields take a string, confianza_analisis a number, the flag a bool and
\* notas_adicionales a string or None.  Neither the vocabulary of
\* severidad_triage / prioridad nor the range of confianza_analisis is
\* constrained by the class (entities.py declares plain str and float).
StrFieldsOfVuln ==
    { "id_vulnerabilidad", "nombre", "descripcion_original", "severidad_original",
      "severidad_triage", "justificacion_severidad", "prioridad",
      "justificacion_prioridad", "impacto_real", "probabilidad_explotacion" }

ValidatesAsVuln(kw) ==
    /\ \A f \in StrFieldsOfVuln : kw[f].type = "str"
    /\ kw["confianza_analisis"].type = "num"
    /\ kw["requiere_validacion_manual"].type = "bool"
    /\ kw["notas_adicionales"].type \in {"str", "null"}

\* The model instance pydantic builds from validated keyword arguments.
TriagedVulnerability(kw, evidencias, recomendaciones) ==
    [ id_vulnerabilidad          |-> kw["id_vulnerabilidad"].str,
      nombre                     |-> kw["nombre"].str,
      descripcion_original       |-> kw["descripcion_original"].str,
      severidad_original         |-> kw["severidad_original"].str,
      severidad_triage           |-> kw["severidad_triage"].str,
      justificacion_severidad    |-> kw["justificacion_severidad"].str,
      prioridad                  |-> kw["prioridad"].str,
      justificacion_prioridad    |-> kw["justificacion_prioridad"].str,
      evidencias                 |-> evidencias,
      impacto_real               |-> kw["impacto_real"].str,
      probabilidad_explotacion   |-> kw["probabilidad_explotacion"].str,
      recomendaciones            |-> recomendaciones,
      confianza_analisis         |-> kw["confianza_analisis"].num,
      requiere_validacion_manual |-> kw["requiere_validacion_manual"].bool,
      notas_adicionales          |-> kw["notas_adicionales"] ]

\* entities.TriageEvidence / TriageRecommendation built from one item of the
\* answer, with the defaults of _create_triaged_vulnerability.
TriageEvidenceKw(ev_data) ==
    [ tipo_evidencia       |-> Get(ev_data, "tipo_evidencia", JStr("desconocido")),
      descripcion          |-> Get(ev_data, "descripcion", JStr("")),
      contenido            |-> Get(ev_data, "contenido", JStr("")),
      criticidad_evidencia |-> Get(ev_data, "criticidad_evidencia", JStr("media")) ]

TriageRecommendationKw(rec_data) ==
    [ tipo                   |-> Get(rec_data, "tipo", JStr("correctiva")),
      descripcion            |-> Get(rec_data, "descripcion", JStr("")),
      impacto_implementacion |-> Get(rec_data, "impacto_implementacion", JStr("medio")) ]

AllStr(kw) == \A f \in DOMAIN kw : kw[f].type = "str"
Unwrap(kw) == [f \in DOMAIN kw |-> kw[f].str]

\* a or b
Or(a, b) == IF Truthy(a) THEN a ELSE b

\* ------------------------------------ _create_triaged_vulnerability
\* Returns [ok, vuln]; ok = FALSE when a constructor raises ValidationError.
CreateTriagedVulnerability(triage_data, original_hallazgo) ==
    LET ev_kw  == [i \in 1..Len(Get(triage_data, "evidencias", << >>)) |->
                      TriageEvidenceKw(triage_data["evidencias"][i])]
        rec_kw == [i \in 1..Len(Get(triage_data, "recomendaciones", << >>)) |->
                      TriageRecommendationKw(triage_data["recomendaciones"][i])]
        vuln_id == Or(Get(original_hallazgo, "id", JNull),
                      Or(Get(triage_data, "vulnerabilidad_id", JNull), JStr("uuid4")))
        kw == [ id_vulnerabilidad    |-> vuln_id,
                nombre               |-> Get(triage_data, "nombre",
                                           Get(original_hallazgo, "nombre",
                                             Get(original_hallazgo, "categoria",
                                                 JStr("Vulnerabilidad sin nombre")))),
                descripcion_original |-> Get(original_hallazgo, "descripcion", JStr("")),
                severidad_original   |-> Get(original_hallazgo, "severidad",
                                             JStr("No especificada")),
                severidad_triage     |-> Get(triage_data, "severidad_triage", JStr("media")),
                justificacion_severidad |-> Get(triage_data, "justificacion_severidad", JStr("")),
                prioridad            |-> Get(triage_data, "prioridad", JStr("P2")),
                justificacion_prioridad |-> Get(triage_data, "justificacion_prioridad", JStr("")),
                impacto_real         |-> Get(triage_data, "impacto_real", JStr("")),
                probabilidad_explotacion |->
                                         Get(triage_data, "probabilidad_explotacion", JStr("media")),
                confianza_analisis   |-> Get(triage_data, "confianza_analisis", JNum(800)),
                requiere_validacion_manual |->
                                         Get(triage_data, "requiere_validacion_manual", JBool(FALSE)),
                notas_adicionales    |-> Get(triage_data, "notas_adicionales", JNull) ]
        ok == /\ \A i \in 1..Len(ev_kw)  : AllStr(ev_kw[i])
              /\ \A i \in 1..Len(rec_kw) : AllStr(rec_kw[i])
              /\ ValidatesAsVuln(kw)
    IN  IF ok
        THEN [ok |-> TRUE,
              vuln |-> TriagedVulnerability(kw,
                          [i \in 1..Len(ev_kw)  |-> Unwrap(ev_kw[i])],
                          [i \in 1..Len(rec_kw) |-> Unwrap(rec_kw[i])])]
        ELSE [ok |-> FALSE, vuln |-> NoVuln]

\* ------------------------------------ _create_fallback_vulnerability
\* The constant part of the fallback record.
FallbackSeverity   == "media"
FallbackPriority   == "P2"
FallbackConfidence == 100

CreateFallbackVulnerability(hallazgo, vuln_number) ==
    LET kw == [ id_vulnerabilidad    |-> Or(Get(hallazgo, "id", JNull), JStr("vuln_n_hex")),
                nombre               |-> Get(hallazgo, "nombre",
                                           Get(hallazgo, "categoria", JStr("Vulnerabilidad n"))),
                descripcion_original |-> Get(hallazgo, "descripcion",
                                           Get(hallazgo, "detalles", JStr(""))),
                severidad_original   |-> Get(hallazgo, "severidad", JStr("No especificada")),
                severidad_triage     |-> JStr(FallbackSeverity),
                justificacion_severidad |->
                    JStr("Análisis automático falló, requiere revisión manual"),
                prioridad            |-> JStr(FallbackPriority),
                justificacion_prioridad |->
                    JStr("Prioridad asignada por defecto debido a error en análisis"),
                impacto_real         |-> JStr("Requiere análisis manual"),
                probabilidad_explotacion |-> JStr("media"),
                confianza_analisis   |-> JNum(FallbackConfidence),
                requiere_validacion_manual |-> JBool(TRUE),
                notas_adicionales    |->
                    JStr("Error en análisis automático, requiere revisión manual") ]
    IN  IF ValidatesAsVuln(kw)
        THEN [ok |-> TRUE, vuln |-> TriagedVulnerability(kw, << >>, << >>)]
        ELSE [ok |-> FALSE, vuln |-> NoVuln]

\* ------------------------------------ _triage_single_vulnerability
\* outcome "ok": the try block returned; "fallback": the except branch
\* returned the fallback record; "raised": the except branch itself raised.
TriageSingleVulnerability(hallazgo, vuln_number, reply) ==
    LET parsed  == ParseTriageResponse(reply)
        created == CreateTriagedVulnerability(parsed.data, hallazgo)
        tryOk   == reply.kind # "raises" /\ parsed.ok /\ created.ok
        fb      == CreateFallbackVulnerability(hallazgo, vuln_number)
    IN  IF tryOk THEN [outcome |-> "ok", vuln |-> created.vuln]
        ELSE IF fb.ok THEN [outcome |-> "fallback", vuln |-> fb.vuln]
        ELSE [outcome |-> "raised", vuln |-> NoVuln]

\* ------------------------------------------ _generate_triage_report
CanonicalSeverities == {"crítica", "alta", "media", "baja", "informativa"}
CanonicalPriorities == {"P0", "P1", "P2", "P3", "P4"}

\* CountInto as the use case's builders count: an unknown key is dropped.
CountIntoKnownOnly(d, k) ==
    IF k \in DOMAIN d THEN [d EXCEPT ![k] = @ + 1] ELSE d

\* d[k] = d.get(k, 0) + 1 : an unknown key is added to the dict.
CountInto(d, k) ==
    IF k \in DOMAIN d THEN [d EXCEPT ![k] = @ + 1] ELSE d @@ (k :> 1)

RECURSIVE Distribution(_, _, _)
\* The loop of lines 367-369 over one field of the vulnerabilities.
Distribution(vulnerabilities, field, d) ==
    IF vulnerabilities = << >> THEN d
    ELSE Distribution(Tail(vulnerabilities), field,
                      CountInto(d, Head(vulnerabilities)[field]))

SeveridadDist(vulnerabilities) ==
    Distribution(vulnerabilities, "severidad_triage", [k \in CanonicalSeverities |-> 0])
PrioridadDist(vulnerabilities) ==
    Distribution(vulnerabilities, "prioridad", [k \in CanonicalPriorities |-> 0])

\* _calculate_risk_score: weights in tenths, confidence in thousandths, so
\* the products are in 1/10000; the mean is kept as the rational num/den.
AgentSeverityWeight(sev) ==
    CASE sev = "crítica"     -> 100
      [] sev = "alta"        -> 75
      [] sev = "media"       -> 50
      [] sev = "baja"        -> 25
      [] sev = "informativa" -> 10
      [] OTHER               -> 50

RiskUnit == 10000

CalculateRiskScore(vulnerabilities) ==
    IF vulnerabilities = << >> THEN [num |-> 0, den |-> 1]
    ELSE LET n     == Len(vulnerabilities)
             total == SumSeq([i \in 1..n |->
                          AgentSeverityWeight(vulnerabilities[i].severidad_triage)
                          * vulnerabilities[i].confianza_analisis])
         IN  [num |-> Min(10 * RiskUnit * n, total), den |-> n]

\* score >= t, for a threshold t given in tenths
ScoreAtLeast(score, tenths) == score.num * 10 >= tenths * RiskUnit * score.den

RiesgoGeneral(risk_score) ==
    IF ScoreAtLeast(risk_score, 80) THEN "crítico"
    ELSE IF ScoreAtLeast(risk_score, 60) THEN "alto"
    ELSE IF ScoreAtLeast(risk_score, 40) THEN "medio"
    ELSE "bajo"

\* _generate_executive_summary: the numbers the text is formatted from.
ExecutiveSummary(vulnerabilities, severidad_dist, prioridad_dist) ==
    [ total    |-> Len(vulnerabilities),
      criticas |-> Get(severidad_dist, "crítica", 0),
      altas    |-> Get(severidad_dist, "alta", 0),
      p0_p1    |-> Get(prioridad_dist, "P0", 0) + Get(prioridad_dist, "P1", 0) ]

\* sorted(vulnerabilities, key=...): a stable sort, by insertion.
AgentPriorityOrder(prioridad) ==
    CASE prioridad = "P0" -> 0
      [] prioridad = "P1" -> 1
      [] prioridad = "P2" -> 2
      [] prioridad = "P3" -> 3
      [] prioridad = "P4" -> 4
      [] OTHER            -> 5

\* The elements are [key, item] pairs; x goes after every element whose key
\* is not greater than its own.
RECURSIVE InsertByKey(_, _)
InsertByKey(sorted, x) ==
    IF sorted = << >> THEN <<x>>
    ELSE IF Head(sorted).key <= x.key
         THEN <<Head(sorted)>> \o InsertByKey(Tail(sorted), x)
         ELSE <<x>> \o sorted

RECURSIVE SortedFrom(_, _)
SortedFrom(done, rest) ==
    IF rest = << >> THEN done
    ELSE SortedFrom(InsertByKey(done, Head(rest)), Tail(rest))

\* sorted(seq, key=...), keys[i] being the key of seq[i]
StableSort(seq, keys) ==
    LET keyed  == [i \in 1..Len(seq) |-> [key |-> keys[i], item |-> seq[i]]]
        sorted == SortedFrom(<< >>, keyed)
    IN  [i \in 1..Len(sorted) |-> sorted[i].item]

FirstN(seq, n) == SubSeq(seq, 1, Min(n, Len(seq)))

\* _generate_remediation_plan
AgentPlanKey(v) == AgentPriorityOrder(v.prioridad)

AgentRemediationPlan(vulnerabilities) ==
    LET sorted_vulns == StableSort(vulnerabilities,
                            [i \in 1..Len(vulnerabilities) |-> AgentPlanKey(vulnerabilities[i])])
    IN  [i \in 1..Len(sorted_vulns) |->
            [ orden                |-> i,
              vulnerabilidad       |-> sorted_vulns[i].nombre,
              prioridad            |-> sorted_vulns[i].prioridad,
              severidad            |-> sorted_vulns[i].severidad_triage,
              acciones_principales |->
                  [j \in 1..Len(FirstN(sorted_vulns[i].recomendaciones, 3)) |->
                      sorted_vulns[i].recomendaciones[j].descripcion],
              requiere_validacion  |-> sorted_vulns[i].requiere_validacion_manual ]]

\* _generate_general_recommendations: the three fixed recommendations, an
\* urgent one in front when there are critical vulnerabilities and a closing
\* one when some need manual validation (each carries its count).
GeneralRecommendations(vulnerabilities) ==
    LET n == Len(vulnerabilities)
        critical_count == Cardinality({i \in 1..n :
                              vulnerabilities[i].severidad_triage = "crítica"})
        manual_count   == Cardinality({i \in 1..n :
                              vulnerabilities[i].requiere_validacion_manual})
        fixed == << [text |-> "proceso de revisión", count |-> 0],
                    [text |-> "monitoreo continuo",  count |-> 0],
                    [text |-> "capacitar al equipo", count |-> 0] >>
    IN  (IF critical_count > 0
         THEN << [text |-> "URGENTE", count |-> critical_count] >> ELSE << >>)
        \o fixed
        \o (IF manual_count > 0
            THEN << [text |-> "validación manual", count |-> manual_count] >> ELSE << >>)

GenerateTriageReport(report, vulnerabilities) ==
    LET severidad_dist == SeveridadDist(vulnerabilities)
        prioridad_dist == PrioridadDist(vulnerabilities)
        risk_score     == CalculateRiskScore(vulnerabilities)
    IN  [ kind                      |-> "TriageReport",
          resumen_triage            |->
              ExecutiveSummary(vulnerabilities, severidad_dist, prioridad_dist),
          total_vulnerabilidades    |-> Len(vulnerabilities),
          distribucion_severidad    |-> severidad_dist,
          distribucion_prioridad    |-> prioridad_dist,
          vulnerabilidades          |-> vulnerabilities,
          recomendaciones_generales |-> GeneralRecommendations(vulnerabilities),
          plan_remediacion          |-> AgentRemediationPlan(vulnerabilities),
          riesgo_general            |-> RiesgoGeneral(risk_score),
          score_riesgo              |-> risk_score,
          version_agente            |-> "1.0.0" ]

\* ------------------------------------------ analyze_vulnerabilities
\* The findings: the first non-empty list among the supported keys.
\* an extraction that takes the first key present, empty or not
RECURSIVE FirstPresent(_, _)
FirstPresent(report, i) ==
    IF i > Len(FormatKeys) THEN << >>
    ELSE IF FormatKeys[i] \in DOMAIN report THEN report[FormatKeys[i]]
    ELSE FirstPresent(report, i + 1)

RECURSIVE FirstNonEmpty(_, _)
FirstNonEmpty(report, i) ==
    IF i > Len(FormatKeys) THEN << >>
    ELSE IF Get(report, FormatKeys[i], << >>) # << >> THEN report[FormatKeys[i]]
    ELSE FirstNonEmpty(report, i + 1)

ExtractHallazgos(report) == FirstNonEmpty(report, 1)

\* Lines 124-143: extract the findings, raise when there are none.
AnalyzeStart ==
    /\ agent_pc = "start"
    /\ hallazgos' = ExtractHallazgos(security_report)
    /\ agent_pc' = IF hallazgos' = << >> THEN "raised" ELSE "loop"
    /\ UNCHANGED <<security_report, triaged_vulnerabilities, failed, triage_report,
                   llm_calls>>
    /\ UNCHANGED <<svcVars, ucVars, valVars, parseVars, caVars, runVars, facVars, normVars>>

\* Lines 147-151: one iteration of the loop, for the answer `reply` of the LLM.
\* An exception that leaves _triage_single_vulnerability reaches the outer
\* handler (lines 162-164), which raises ReportAnalysisError.
TriageOne(reply) ==
    /\ agent_pc = "loop"
    /\ Len(triaged_vulnerabilities) < Len(hallazgos)
    /\ LET i == Len(triaged_vulnerabilities) + 1
           r == TriageSingleVulnerability(hallazgos[i], i, reply)
       IN  IF r.outcome = "raised"
           THEN /\ agent_pc' = "raised"
                /\ UNCHANGED <<triaged_vulnerabilities, failed>>
           ELSE /\ triaged_vulnerabilities' = Append(triaged_vulnerabilities, r.vuln)
                /\ failed' = Append(failed, r.outcome = "fallback")
                /\ agent_pc' = agent_pc
    /\ llm_calls' = llm_calls + 1
    /\ UNCHANGED <<security_report, hallazgos, triage_report>>
    /\ UNCHANGED <<svcVars, ucVars, valVars, parseVars, caVars, runVars, facVars, normVars>>

TriageNext == \E reply \in Replies : TriageOne(reply)

\* Lines 154-160: build and return the report.
AnalyzeFinish ==
    /\ agent_pc = "loop"
    /\ Len(triaged_vulnerabilities) = Len(hallazgos)
    /\ triage_report' = GenerateTriageReport(security_report, triaged_vulnerabilities)
    /\ agent_pc' = "done"
    /\ UNCHANGED <<security_report, hallazgos, triaged_vulnerabilities, failed,
                   llm_calls>>
    /\ UNCHANGED <<svcVars, ucVars, valVars, parseVars, caVars, runVars, facVars, normVars>>



\* =============================================================== TriageService
\* str.lower() on the vocabulary the model uses.
Lower(s) ==
    CASE s \in {"CRÍTICO", "Crítico"}   -> "crítico"
      [] s \in {"ALTO", "Alto"}         -> "alto"
      [] s \in {"MEDIO", "Medio"}       -> "medio"
      [] s \in {"BAJO", "Bajo"}         -> "bajo"
      [] s \in {"ALTA", "Alta"}         -> "alta"
      [] s \in {"MEDIA", "Media"}       -> "media"
      [] s \in {"BAJA", "Baja"}         -> "baja"
      [] s \in {"CRÍTICA", "Crítica"}   -> "crítica"
      [] s \in {"CRITICAL", "Critical"} -> "critical"
      [] s \in {"HIGH", "High"}         -> "high"
      [] s \in {"MEDIUM", "Medium"}     -> "medium"
      [] s \in {"LOW", "Low"}           -> "low"
      [] s \in {"INFO", "Info"}         -> "info"
      [] s = "P0" -> "p0"
      [] s = "P1" -> "p1"
      [] s = "P2" -> "p2"
      [] s = "P3" -> "p3"
      [] s = "P4" -> "p4"
      [] OTHER    -> s

\* ------------------------------------------ calculate_severity_score
\* Scores are in tenths.
ImpactWeight(impact) ==
    CASE impact = "crítico" -> 40
      [] impact = "alto"    -> 30
      [] impact = "medio"   -> 20
      [] impact = "bajo"    -> 10
      [] OTHER              -> 10

\* ExploitWeight with nothing added for an unlisted probability.
ExploitWeightListedOnly(exploit_prob) ==
    CASE exploit_prob = "alta"  -> 30
      [] exploit_prob = "media" -> 20
      [] exploit_prob = "baja"  -> 10
      [] OTHER                  -> 0

ExploitWeight(exploit_prob) ==
    CASE exploit_prob = "alta"  -> 30
      [] exploit_prob = "media" -> 20
      [] exploit_prob = "baja"  -> 10
      [] OTHER                  -> 10

\* EvidenceScore without its cap of 2.0.
EvidenceScoreUncapped(evidences) ==
    IF evidences # << >> THEN Len(evidences) * 5 ELSE 0

\* min(len(evidences) * 0.5, 2.0), added only for a non-empty list
EvidenceScore(evidences) ==
    IF evidences # << >> THEN Min(Len(evidences) * 5, 20) ELSE 0

PocBonus(vulnerability) ==
    IF "proof_of_concept" \in DOMAIN vulnerability THEN 10 ELSE 0

SeverityBaseScore(vulnerability) ==
    ImpactWeight(Lower(Get(vulnerability, "impacto", "bajo")))
    + ExploitWeight(Lower(Get(vulnerability, "probabilidad_explotacion", "baja")))
    + EvidenceScore(Get(vulnerability, "evidencias", << >>))
    + PocBonus(vulnerability)

CalculateSeverityScore(vulnerability) == Min(SeverityBaseScore(vulnerability), 100)

\* DetermineSeverityLevel with a strict first threshold (score > 9.0).
DetermineSeverityLevelStrict(score) ==
    IF score > 90 THEN "crítica"
    ELSE IF score >= 70 THEN "alta"
    ELSE IF score >= 40 THEN "media"
    ELSE IF score >= 20 THEN "baja"
    ELSE "informativa"

\* ------------------------------------------ determine_severity_level
DetermineSeverityLevel(score) ==
    IF score >= 90 THEN "crítica"
    ELSE IF score >= 70 THEN "alta"
    ELSE IF score >= 40 THEN "media"
    ELSE IF score >= 20 THEN "baja"
    ELSE "informativa"

\* ------------------------------------------ determine_priority_level
\* The dict priority_matrix: its keys are (severity, impact) pairs.
PriorityMatrix ==
    [ k \in CanonicalSeverities \X {"alto", "medio", "bajo"} |->
        CASE k = <<"crítica", "alto">>      -> "P0"
          [] k = <<"crítica", "medio">>     -> "P0"
          [] k = <<"crítica", "bajo">>      -> "P1"
          [] k = <<"alta", "alto">>         -> "P0"
          [] k = <<"alta", "medio">>        -> "P1"
          [] k = <<"alta", "bajo">>         -> "P1"
          [] k = <<"media", "alto">>        -> "P1"
          [] k = <<"media", "medio">>       -> "P2"
          [] k = <<"media", "bajo">>        -> "P2"
          [] k = <<"baja", "alto">>         -> "P2"
          [] k = <<"baja", "medio">>        -> "P3"
          [] k = <<"baja", "bajo">>         -> "P3"
          [] k = <<"informativa", "alto">>  -> "P3"
          [] k = <<"informativa", "medio">> -> "P4"
          [] k = <<"informativa", "bajo">>  -> "P4" ]

\* DeterminePriorityLevel without business_impact.lower().
DeterminePriorityLevelCaseSensitive(severity, business_impact) ==
    Get(PriorityMatrix, <<severity, business_impact>>, "P3")

DeterminePriorityLevel(severity, business_impact) ==
    Get(PriorityMatrix, <<severity, Lower(business_impact)>>, "P3")

\* ---------------------------------------- calculate_confidence_score
\* Confidence is in thousandths.
EvidenceWeight(evidence_type) ==
    CASE evidence_type = "código"         -> 300
      [] evidence_type = "respuesta_http" -> 200
      [] evidence_type = "archivo"        -> 150
      [] evidence_type = "configuración"  -> 100
      [] evidence_type = "base_datos"     -> 250
      [] OTHER                            -> 50

\* AdjustedWeight with the multiplier of "medio" left out.
AdjustedWeightNoMedium(evidence) ==
    LET weight      == EvidenceWeight(Get(evidence, "tipo_evidencia", ""))
        criticality == Get(evidence, "criticidad_evidencia", "bajo")
    IN  IF criticality = "alto" THEN (weight * 15) \div 10 ELSE weight

\* weight *= 1.5 for "alto", weight *= 1.2 for "medio"
AdjustedWeight(evidence) ==
    LET weight      == EvidenceWeight(Get(evidence, "tipo_evidencia", ""))
        criticality == Get(evidence, "criticidad_evidencia", "bajo")
    IN  IF criticality = "alto" THEN (weight * 15) \div 10
        ELSE IF criticality = "medio" THEN (weight * 12) \div 10
        ELSE weight

\* CalculateConfidenceScore normalised by the number of evidence items.
CalculateConfidenceScoreAveraged(evidences) ==
    IF evidences = << >> THEN 300
    ELSE Min(500 + SumSeq([i \in 1..Len(evidences) |-> AdjustedWeight(evidences[i])])
                       \div Len(evidences),
             1000)

CalculateConfidenceScore(evidences) ==
    IF evidences = << >> THEN 300
    ELSE Min(500 + SumSeq([i \in 1..Len(evidences) |-> AdjustedWeight(evidences[i])]),
             1000)

\* --------------------------- TriageService.generate_remediation_plan
\* A field of a domain.models TriagedVulnerability declared with an Enum
\* type holds either the plain value (rep "str": what validation stores,
\* because the model's Config sets use_enum_values = True) or the Enum
\* member (rep "enum": an instance built without validation).  Both compare
\* and hash equal to the value; only the member has the attribute `.value`.
Stored(rep, value) == [rep |-> rep, value |-> value]
HasValueAttr(stored) == stored.rep = "enum"

PriorityOrder == <<"P0", "P1", "P2", "P3", "P4">>

\* priority_order.index(p); 0 stands for ValueError
PriorityIndex(stored) ==
    IF \E i \in 1..Len(PriorityOrder) : PriorityOrder[i] = stored.value
    THEN CHOOSE i \in 1..Len(PriorityOrder) : PriorityOrder[i] = stored.value
    ELSE 0

\* _estimate_remediation_time
EstimateRemediationTime(priority) ==
    CASE priority.value = "P0" -> "< 24 horas"
      [] priority.value = "P1" -> "< 1 semana"
      [] priority.value = "P2" -> "< 1 mes"
      [] priority.value = "P3" -> "< 3 meses"
      [] priority.value = "P4" -> "Cuando sea posible"
      [] OTHER                 -> "No definido"

\* _extract_resources_from_recommendations: list(set(...)), whose order is
\* that of the set's iteration; the model keeps the set.
ExtractResources(recommendations) ==
    UNION { recommendations[i].recursos_necesarios : i \in 1..Len(recommendations) }

\* the actions without the cut of line 226
ExtractAllActions(recommendations) ==
    [i \in 1..Len(recommendations) |-> recommendations[i].descripcion]

\* _extract_main_actions
ExtractMainActions(recommendations) ==
    FirstN([i \in 1..Len(recommendations) |-> recommendations[i].descripcion], 3)

ServicePlanKey(v) == PriorityIndex(v.prioridad)

\* [status, plan]: status "raised" when the sort key raises ValueError or an
\* item reads `.value` of a plain string (AttributeError).
ServiceRemediationPlan(vulnerabilities) ==
    LET n == Len(vulnerabilities)
        sorted_vulns == StableSort(vulnerabilities,
                            [i \in 1..n |-> ServicePlanKey(vulnerabilities[i])])
    IN  IF \/ \E i \in 1..n : ServicePlanKey(vulnerabilities[i]) = 0
           \/ \E i \in 1..n : ~HasValueAttr(vulnerabilities[i].prioridad)
           \/ \E i \in 1..n : ~HasValueAttr(vulnerabilities[i].severidad_triage)
        THEN [status |-> "raised", plan |-> << >>]
        ELSE [status |-> "returned",
              plan |-> [i \in 1..n |->
                  [ orden                |-> i,
                    vulnerabilidad_id    |-> sorted_vulns[i].id_vulnerabilidad,
                    nombre               |-> sorted_vulns[i].nombre,
                    prioridad            |-> sorted_vulns[i].prioridad.value,
                    severidad            |-> sorted_vulns[i].severidad_triage.value,
                    tiempo_estimado      |-> EstimateRemediationTime(sorted_vulns[i].prioridad),
                    recursos_necesarios  |-> ExtractResources(sorted_vulns[i].recomendaciones),
                    acciones_principales |-> ExtractMainActions(sorted_vulns[i].recomendaciones) ]]]

\* ------------------------------------- calculate_overall_risk_score
\* ServiceSeverityWeight with the weight the agent gives to informativa.
ServiceSeverityWeightAsAgent(sev) ==
    CASE sev = "crítica"     -> 100
      [] sev = "alta"        -> 70
      [] sev = "media"       -> 40
      [] sev = "baja"        -> 20
      [] sev = "informativa" -> 10
      [] OTHER               -> 10

\* severity_weights.get(vuln.severidad_triage, 1.0), in tenths
ServiceSeverityWeight(sev) ==
    CASE sev = "crítica"     -> 100
      [] sev = "alta"        -> 70
      [] sev = "media"       -> 40
      [] sev = "baja"        -> 20
      [] sev = "informativa" -> 5
      [] OTHER               -> 10

\* The mean is kept as the rational num/den, num in 1/10000 (tenths times
\* thousandths), as in the agent's _calculate_risk_score.
CalculateOverallRiskScore(vulnerabilities) ==
    IF vulnerabilities = << >> THEN [num |-> 0, den |-> 1]
    ELSE LET n           == Len(vulnerabilities)
             total_score == SumSeq([i \in 1..n |->
                                ServiceSeverityWeight(vulnerabilities[i].severidad_triage)
                                * vulnerabilities[i].confianza_analisis])
         IN  [num |-> Min(total_score, 10 * RiskUnit * n), den |-> n]

\* ------------------------------------- determine_overall_risk_level
\* domain.models.triage.ImpactLevel: the members the Enum defines.
ImpactLevel == [HIGH |-> "alto", MEDIUM |-> "medio", LOW |-> "bajo"]

\* ImpactLevel.<name>: AttributeError for a name the Enum does not define.
ImpactLevelMember(name) ==
    IF name \in DOMAIN ImpactLevel
    THEN [status |-> "returned", level |-> ImpactLevel[name]]
    ELSE [status |-> "raised", level |-> "AttributeError"]

\* risk_score in tenths
DetermineOverallRiskLevel(risk_score) ==
    IF risk_score >= 90 THEN ImpactLevelMember("CRITICAL")
    ELSE IF risk_score >= 70 THEN ImpactLevelMember("HIGH")
    ELSE IF risk_score >= 40 THEN ImpactLevelMember("MEDIUM")
    ELSE ImpactLevelMember("LOW")

\* ----------------------------------------------- inputs of the service
EmptyFn == [k \in {} |-> 0]
OptKey(k, values) == {EmptyFn} \cup { (k :> v) : v \in values }

ImpactStrings  == {"crítico", "alto", "medio", "bajo", "ALTO", "Crítico", "severo", ""}
ExploitStrings == {"alta", "media", "baja", "ALTA", "Media", "n/a"}
AnEvidence     == [tipo_evidencia |-> "código", criticidad_evidencia |-> "alto"]

\* the vulnerability attribute records handed to calculate_severity_score
SeverityInputs ==
    { a @@ b @@ c @@ d :
        a \in OptKey("impacto", ImpactStrings),
        b \in OptKey("probabilidad_explotacion", ExploitStrings),
        c \in OptKey("evidencias", { [i \in 1..n |-> AnEvidence] : n \in 0..MaxEvidenceCount }),
        d \in OptKey("proof_of_concept", {"poc"}) }

Scores == 0..MaxScore

PrioritySeverities == CanonicalSeverities \cup {"critical", "CRÍTICA", ""}
BusinessImpacts    == {"alto", "medio", "bajo", "ALTO", "Medio", "Bajo", "crítico", ""}

EvidenceTypes == {"código", "respuesta_http", "archivo", "configuración",
                  "base_datos", "desconocido"}
EvidenceItems ==
    { [tipo_evidencia |-> t, criticidad_evidencia |-> c] :
        t \in EvidenceTypes, c \in {"alto", "medio", "bajo"} }
    \cup { EmptyFn, [tipo_evidencia |-> "código", criticidad_evidencia |-> "alta"] }

\* a recommendation of domain.models.triage
Rec(n) == [descripcion |-> n, recursos_necesarios |-> {"equipo"}]
RecLists == { << >>, <<Rec("a1"), Rec("a2"), Rec("a3"), Rec("a4")>> }

\* The vulnerabilities of one list are built the same way (rep); the i-th is
\* named after its place in the input.
PlanVuln(i, rep, prioridad, recs) ==
    [ id_vulnerabilidad |-> i, nombre |-> i,
      prioridad         |-> Stored(rep, prioridad),
      severidad_triage  |-> Stored(rep, "media"),
      recomendaciones   |-> recs ]

PlanInputs ==
    UNION { { [i \in 1..n |-> PlanVuln(i, rep, ps[i], rs[i])] :
                ps \in [1..n -> CanonicalPriorities], rs \in [1..n -> RecLists],
                rep \in {"str", "enum"} } : n \in 0..MaxPlan }

\* validated TriagedVulnerability instances, by the two fields the risk
\* score reads: a SeverityLevel and a confidence within [0,1]
RiskVulns ==
    { [severidad_triage |-> sev, confianza_analisis |-> c] :
        sev \in CanonicalSeverities, c \in {0, 350, 1000} }
RiskBatches == UNION { [1..n -> RiskVulns] : n \in 0..MaxRiskBatch }

NoCall == [op |-> "none"]
Call(op, arg, out) == [op |-> op, arg |-> arg, out |-> out]

\* ---------------------------------------------- calls of the service
CallSeverityScore ==
    /\ svc_call = NoCall
    /\ \E vulnerability \in SeverityInputs :
         svc_call' = Call("calculate_severity_score", vulnerability,
                          CalculateSeverityScore(vulnerability))
    /\ UNCHANGED svc_prev
    /\ UNCHANGED <<agentVars, ucVars, valVars, parseVars, caVars, runVars, facVars, normVars>>

CallSeverityLevel ==
    /\ svc_call = NoCall
    /\ \E score \in Scores :
         svc_call' = Call("determine_severity_level", score, DetermineSeverityLevel(score))
    /\ UNCHANGED svc_prev
    /\ UNCHANGED <<agentVars, ucVars, valVars, parseVars, caVars, runVars, facVars, normVars>>

\* a second call, with a higher score
CallSeverityLevelHigher ==
    /\ svc_call.op = "determine_severity_level"
    /\ svc_prev = NoCall
    /\ \E score \in Scores :
         /\ score > svc_call.arg
         /\ svc_call' = Call("determine_severity_level", score, DetermineSeverityLevel(score))
    /\ svc_prev' = svc_call
    /\ UNCHANGED <<agentVars, ucVars, valVars, parseVars, caVars, runVars, facVars, normVars>>

CallPriorityLevel ==
    /\ svc_call = NoCall
    /\ \E severity \in PrioritySeverities, business_impact \in BusinessImpacts :
         svc_call' = Call("determine_priority_level", <<severity, business_impact>>,
                          DeterminePriorityLevel(severity, business_impact))
    /\ UNCHANGED svc_prev
    /\ UNCHANGED <<agentVars, ucVars, valVars, parseVars, caVars, runVars, facVars, normVars>>

CallConfidenceScore ==
    /\ svc_call = NoCall
    /\ svc_call' = Call("calculate_confidence_score", << >>, CalculateConfidenceScore(<< >>))
    /\ UNCHANGED svc_prev
    /\ UNCHANGED <<agentVars, ucVars, valVars, parseVars, caVars, runVars, facVars, normVars>>

\* the same list with one more evidence item
CallConfidenceScoreAppended ==
    /\ svc_call.op = "calculate_confidence_score"
    /\ Len(svc_call.arg) < MaxEvidence
    /\ \E evidence \in EvidenceItems :
         LET evidences == Append(svc_call.arg, evidence)
         IN  svc_call' = Call("calculate_confidence_score", evidences,
                              CalculateConfidenceScore(evidences))
    /\ svc_prev' = svc_call
    /\ UNCHANGED <<agentVars, ucVars, valVars, parseVars, caVars, runVars, facVars, normVars>>

CallRemediationPlan ==
    /\ svc_call = NoCall
    /\ \E vulnerabilities \in PlanInputs :
         svc_call' = Call("generate_remediation_plan", vulnerabilities,
                          ServiceRemediationPlan(vulnerabilities))
    /\ UNCHANGED svc_prev
    /\ UNCHANGED <<agentVars, ucVars, valVars, parseVars, caVars, runVars, facVars, normVars>>

CallOverallRiskScore ==
    /\ svc_call = NoCall
    /\ \E vulnerabilities \in RiskBatches :
         svc_call' = Call("calculate_overall_risk_score", vulnerabilities,
                          CalculateOverallRiskScore(vulnerabilities))
    /\ UNCHANGED svc_prev
    /\ UNCHANGED <<agentVars, ucVars, valVars, parseVars, caVars, runVars, facVars, normVars>>

\* the same batch scored by the service and by the agent
CallBothRiskScores ==
    /\ svc_call = NoCall
    /\ \E vulnerabilities \in RiskBatches :
         svc_call' = Call("risk_scores", vulnerabilities,
                          [ service |-> CalculateOverallRiskScore(vulnerabilities),
                            agent   |-> CalculateRiskScore(vulnerabilities) ])
    /\ UNCHANGED svc_prev
    /\ UNCHANGED <<agentVars, ucVars, valVars, parseVars, caVars, runVars, facVars, normVars>>

CallOverallRiskLevel ==
    /\ svc_call = NoCall
    /\ \E risk_score \in Scores :
         svc_call' = Call("determine_overall_risk_level", risk_score,
                          DetermineOverallRiskLevel(risk_score))
    /\ UNCHANGED svc_prev
    /\ UNCHANGED <<agentVars, ucVars, valVars, parseVars, caVars, runVars, facVars, normVars>>

ServiceNext ==
    \/ CallSeverityScore
    \/ CallSeverityLevel
    \/ CallSeverityLevelHigher
    \/ CallPriorityLevel
    \/ CallConfidenceScore
    \/ CallConfidenceScoreAppended
    \/ CallRemediationPlan
    \/ CallOverallRiskScore
    \/ CallBothRiskScores
    \/ CallOverallRiskLevel

\* ================================================ TriageVulnerabilitiesUseCase
\* What the classes the use case works with define (an attribute outside
\* these sets raises AttributeError).
\* domain.models.triage.TriageReport
TriageReportFields ==
    { "id_reporte", "fecha_generacion", "reporte_origen", "resumen_triage",
      "total_vulnerabilidades", "distribucion_severidad", "distribucion_prioridad",
      "vulnerabilidades", "recomendaciones_generales", "plan_remediacion",
      "riesgo_general", "score_riesgo", "version_agente", "configuracion_triage" }
\* domain.models.triage.TriagedVulnerability
TriagedVulnerabilityFields ==
    { "id_vulnerabilidad", "nombre", "descripcion_original", "severidad_original",
      "severidad_triage", "justificacion_severidad", "prioridad",
      "justificacion_prioridad", "evidencias", "impacto_real",
      "probabilidad_explotacion", "recomendaciones", "fecha_triage",
      "confianza_analisis", "requiere_validacion_manual", "notas_adicionales" }
\* domain.services.TriageService
TriageServiceMethods ==
    { "calculate_severity_score", "determine_severity_level",
      "determine_priority_level", "calculate_confidence_score",
      "calculate_overall_risk_score", "determine_overall_risk_level",
      "generate_remediation_plan", "_estimate_remediation_time",
      "_extract_resources_from_recommendations", "_extract_main_actions" }

\* --------------------------------------- _enhance_vulnerability_analysis
\* The step reads vulnerability.analysis, .evidence, .original_finding and
\* .recommendations and calls calculate_severity_level and
\* calculate_priority_level of the service; [ok, vuln].
EnhanceVulnerabilityAnalysis(vulnerability) ==
    IF /\ {"calculate_severity_level", "calculate_priority_level",
           "calculate_confidence_score", "generate_remediation_plan"}
              \subseteq TriageServiceMethods
       /\ {"analysis", "evidence", "original_finding", "recommendations"}
              \subseteq TriagedVulnerabilityFields
    THEN [ok |-> TRUE,  vuln |-> [vulnerability EXCEPT !.enhanced = TRUE]]
    ELSE [ok |-> FALSE, vuln |-> vulnerability]

\* ------------------------------------------------------------ execute
\* `valid`: SecurityReport.model_validate accepts the dict; `analyzer`: what
\* analyze_vulnerabilities does, [raises, vulnerabilities].  Every exception
\* is re-raised by the handler of lines 100-101: [status, at, enhanced].
UcRaised(at) == [status |-> "raised", at |-> at, enhanced |-> << >>]

Execute(valid, analyzer) ==
    IF ~valid THEN UcRaised("SecurityReport.model_validate")
    ELSE IF analyzer.raises THEN UcRaised("analyze_vulnerabilities")
    ELSE IF "vulnerabilities" \notin TriageReportFields
         THEN UcRaised("triage_report.vulnerabilities")
    ELSE LET vulns    == analyzer.vulnerabilities
             enhanced == [i \in 1..Len(vulns) |-> EnhanceVulnerabilityAnalysis(vulns[i])]
         IN  IF \E i \in 1..Len(vulns) : ~enhanced[i].ok
             THEN UcRaised("_enhance_vulnerability_analysis")
             ELSE IF "calculate_summary_statistics" \notin TriageServiceMethods
                  THEN UcRaised("calculate_summary_statistics")
             ELSE [status |-> "returned", at |-> "return",
                   enhanced |-> [i \in 1..Len(vulns) |-> enhanced[i].vuln]]

\* ----------------------------------------- _get_severity_distribution
\* One iteration of the loop: the if/elif chain has no else branch.
CountSeverity(distribution, final_severity) ==
    LET severity == Lower(final_severity)
    IN  IF severity \in DOMAIN distribution
        THEN [distribution EXCEPT ![severity] = @ + 1]
        ELSE IF severity = "critical" THEN [distribution EXCEPT !["crítica"] = @ + 1]
        ELSE IF severity = "high"     THEN [distribution EXCEPT !["alta"] = @ + 1]
        ELSE IF severity = "medium"   THEN [distribution EXCEPT !["media"] = @ + 1]
        ELSE IF severity = "low"      THEN [distribution EXCEPT !["baja"] = @ + 1]
        ELSE IF severity \in {"info", "informational"}
             THEN [distribution EXCEPT !["informativa"] = @ + 1]
        ELSE distribution

RECURSIVE SeverityDistributionFrom(_, _)
SeverityDistributionFrom(distribution, vulnerabilities) ==
    IF vulnerabilities = << >> THEN distribution
    ELSE SeverityDistributionFrom(
             CountSeverity(distribution, Head(vulnerabilities).final_severity),
             Tail(vulnerabilities))

GetSeverityDistribution(vulnerabilities) ==
    SeverityDistributionFrom([k \in CanonicalSeverities |-> 0], vulnerabilities)

\* ----------------------------------------- _get_priority_distribution
CountPriority(distribution, final_priority) ==
    LET priority == Lower(final_priority)
    IN  IF priority \in DOMAIN distribution
        THEN [distribution EXCEPT ![priority] = @ + 1]
        ELSE IF priority = "critical" THEN [distribution EXCEPT !["crítica"] = @ + 1]
        ELSE IF priority = "high"     THEN [distribution EXCEPT !["alta"] = @ + 1]
        ELSE IF priority = "medium"   THEN [distribution EXCEPT !["media"] = @ + 1]
        ELSE IF priority = "low"      THEN [distribution EXCEPT !["baja"] = @ + 1]
        ELSE distribution

RECURSIVE PriorityDistributionFrom(_, _)
PriorityDistributionFrom(distribution, vulnerabilities) ==
    IF vulnerabilities = << >> THEN distribution
    ELSE PriorityDistributionFrom(
             CountPriority(distribution, Head(vulnerabilities).final_priority),
             Tail(vulnerabilities))

GetPriorityDistribution(vulnerabilities) ==
    PriorityDistributionFrom([k \in {"crítica", "alta", "media", "baja"} |-> 0],
                             vulnerabilities)

\* ---------------------------------------------- inputs of the use case
\* the vulnerabilities an analyzer returns
AnalyzerVulns ==
    { [severidad_triage |-> sp[1], prioridad |-> sp[2], confianza_analisis |-> c,
       enhanced |-> FALSE] :
        sp \in {<<"crítica", "P0">>, <<"media", "P2">>, <<"baja", "P4">>},
        c \in {100, 800} }

RECURSIVE SeqsUpTo(_, _)
\* the sequences over S of length at most n
SeqsUpTo(S, n) ==
    IF n = 0 THEN { << >> }
    ELSE LET shorter == SeqsUpTo(S, n - 1)
         IN  shorter \cup { Append(q, x) : q \in { y \in shorter : Len(y) = n - 1 },
                                           x \in S }

AnalyzerOutcomes ==
    { [raises |-> TRUE, vulnerabilities |-> << >>] }
    \cup { [raises |-> FALSE, vulnerabilities |-> vs] : vs \in SeqsUpTo(AnalyzerVulns, MaxBatch) }

\* vulnerabilities with the final severity / priority the builders read
AnalysedVulns ==
    { [final_severity |-> "crítica", final_priority |-> "crítica"],
      [final_severity |-> "Alta",    final_priority |-> "Alta"],
      [final_severity |-> "baja",    final_priority |-> "media"],
      [final_severity |-> "critical", final_priority |-> "HIGH"],
      [final_severity |-> "HIGH",    final_priority |-> "low"],
      [final_severity |-> "info",    final_priority |-> "baja"],
      [final_severity |-> "informational", final_priority |-> "medium"],
      [final_severity |-> "informativa",   final_priority |-> "P1"],
      [final_severity |-> "urgent",  final_priority |-> "critical"] }

\* ---------------------------------------------- calls of the use case
CallExecute ==
    /\ uc_call = NoCall
    /\ \E valid \in BOOLEAN, analyzer \in AnalyzerOutcomes :
         uc_call' = Call("execute", [valid |-> valid, analyzer |-> analyzer],
                         Execute(valid, analyzer))
    /\ UNCHANGED <<agentVars, svcVars, valVars, parseVars, caVars, runVars, facVars, normVars>>

CallSeverityDistribution ==
    /\ uc_call = NoCall
    /\ \E vulnerabilities \in SeqsUpTo(AnalysedVulns, MaxBatch) :
         uc_call' = Call("_get_severity_distribution", vulnerabilities,
                         GetSeverityDistribution(vulnerabilities))
    /\ UNCHANGED <<agentVars, svcVars, valVars, parseVars, caVars, runVars, facVars, normVars>>

CallPriorityDistribution ==
    /\ uc_call = NoCall
    /\ \E vulnerabilities \in SeqsUpTo(AnalysedVulns, MaxBatch) :
         uc_call' = Call("_get_priority_distribution", vulnerabilities,
                         GetPriorityDistribution(vulnerabilities))
    /\ UNCHANGED <<agentVars, svcVars, valVars, parseVars, caVars, runVars, facVars, normVars>>

UseCaseNext == CallExecute \/ CallSeverityDistribution \/ CallPriorityDistribution

\* ================================================= ReportValidationService
\* A Python str is the sequence of its characters.  The characters used:
\* letters "x", "a", "b", "c", the digit "1", " ", "@", ".", ":" and "S",
\* which stands for the scheme "http://" or "https://" at the start of a URL.
Sp(n) == [i \in 1..n |-> " "]
Xs(n) == [i \in 1..n |-> "x"]
LetterChars == {"x", "a", "b", "c"}
WordChars   == LetterChars \cup {"1"}

RECURSIVE LStrip(_)
LStrip(s) == IF s # << >> /\ Head(s) = " " THEN LStrip(Tail(s)) ELSE s

RECURSIVE RStrip(_)
RStrip(s) ==
    IF s # << >> /\ s[Len(s)] = " " THEN RStrip(SubSeq(s, 1, Len(s) - 1)) ELSE s

\* str.strip()
Strip(s) == RStrip(LStrip(s))

\* `not s or not s.strip()`
Blank(s) == s = << >> \/ Strip(s) = << >>

\* '@' in s
Contains(s, ch) == \E i \in 1..Len(s) : s[i] = ch

\* EMAIL_PATTERN.match(s): [a-zA-Z0-9._%+-]+ @ [a-zA-Z0-9.-]+ \. [a-zA-Z]{2,} $
MatchesEmail(s) ==
    \E at \in 2..Len(s) : \E dot \in (at + 2)..(Len(s) - 2) :
        /\ s[at] = "@"
        /\ \A i \in 1..(at - 1) : s[i] \in WordChars \cup {"."}
        /\ \A i \in (at + 1)..(dot - 1) : s[i] \in WordChars \cup {"."}
        /\ s[dot] = "."
        /\ \A i \in (dot + 1)..Len(s) : s[i] \in LetterChars

\* URL_PATTERN.match(s): https?:// [\w.-]+ (\.[\w.-]+)+ [\w-._~:/?#...]* $
MatchesUrl(s) ==
    /\ s # << >>
    /\ s[1] = "S"
    /\ \E dot \in 3..(Len(s) - 1) :
        /\ s[dot] = "."
        /\ \A i \in 2..(dot + 1) : s[i] \in WordChars \cup {"."}
        /\ \A i \in (dot + 2)..Len(s) : s[i] \in WordChars \cup {".", ":", "@"}

\* s.split(':')[0]
BeforeColon(s) ==
    IF Contains(s, ":")
    THEN SubSeq(s, 1, (CHOOSE i \in 1..Len(s) :
                          s[i] = ":" /\ \A j \in 1..(i - 1) : s[j] # ":") - 1)
    ELSE s

\* IP_PATTERN.match(s): four octets of one to three digits, joined by "."
\* (the digit "1" only: every octet is at most 111)
MatchesIp(s) ==
    LET dots == { i \in 1..Len(s) : s[i] = "." }
    IN  /\ s # << >>
        /\ \A i \in 1..Len(s) : s[i] \in {"1", "."}
        /\ Cardinality(dots) = 3
        /\ s[1] = "1" /\ s[Len(s)] = "1"
        /\ \A i \in dots : (i + 1) \notin dots
        /\ \A i \in 1..(Len(s) - 3) : \E j \in i..(i + 3) : s[j] = "."

\* An error message: its text and the values formatted into it.
Err(msg, i, a, b) == [msg |-> msg, i |-> i, a |-> a, b |-> b]

\* What a validator did: the errors it returned, or the exception it raised.
Errors(errors) == [raised |-> FALSE, errors |-> errors]
Raises(exc)    == [raised |-> TRUE, errors |-> <<Err(exc, 0, 0, 0)>>]

\* errors.extend(...) over the validators in the order they are called: the
\* first that raises ends the call.
RECURSIVE ExtendAll(_)
ExtendAll(results) ==
    IF results = << >> THEN Errors(<< >>)
    ELSE IF Head(results).raised THEN Head(results)
    ELSE LET rest == ExtendAll(Tail(results))
         IN  IF rest.raised THEN rest
             ELSE Errors(Head(results).errors \o rest.errors)

\* obj.name: AttributeError when the object has no such attribute.
HasAttr(obj, name) == name \in DOMAIN obj

\* -------------------------------------------- _validate_document_metadata
\* fecha_creacion is None ("none"), a date before now ("past") or after it
\* ("future").
ValidateDocumentMetadata(report) ==
    LET documento == report.documento
        titulo    == documento.titulo
        autor     == documento.autor
        title_errors ==
            IF Blank(titulo) THEN <<Err("El título del documento es obligatorio", 0, 0, 0)>>
            ELSE IF Len(Strip(titulo)) < 5
                 THEN <<Err("El título del documento debe tener al menos 5 caracteres", 0, 0, 0)>>
            ELSE << >>
        author_errors ==
            IF Blank(autor) THEN <<Err("El autor del documento es obligatorio", 0, 0, 0)>>
            ELSE << >>
        date_errors ==
            IF documento.fecha_creacion = "none"
            THEN <<Err("La fecha de creación es obligatoria", 0, 0, 0)>>
            ELSE IF documento.fecha_creacion = "future"
                 THEN <<Err("La fecha de creación no puede ser futura", 0, 0, 0)>>
            ELSE << >>
        email_errors ==
            IF Contains(autor, "@") /\ ~MatchesEmail(autor)
            THEN <<Err("El formato del email del autor no es válido", 0, 0, 0)>>
            ELSE << >>
    IN  IF ~HasAttr(documento, "fecha_creacion") THEN Raises("AttributeError")
        ELSE Errors(title_errors \o author_errors \o date_errors \o email_errors)

\* ----------------------------------------------------- _validate_findings
ValidSeverities == <<"crítica", "alta", "media", "baja", "informativa">>

\* the errors of the i-th finding, in the order of the checks
FindingErrors(finding, i) ==
    (IF Blank(finding.nombre) THEN <<Err("El nombre es obligatorio", i, 0, 0)>>
     ELSE IF Len(Strip(finding.nombre)) < 3
          THEN <<Err("El nombre debe tener al menos 3 caracteres", i, 0, 0)>>
     ELSE << >>)
    \o (IF Blank(finding.descripcion) THEN <<Err("La descripción es obligatoria", i, 0, 0)>>
        ELSE IF Len(Strip(finding.descripcion)) < 20
             THEN <<Err("La descripción debe tener al menos 20 caracteres", i, 0, 0)>>
        ELSE << >>)
    \o (IF Blank(finding.categoria) THEN <<Err("La categoría es obligatoria", i, 0, 0)>>
        ELSE << >>)
    \o (IF \A k \in 1..Len(ValidSeverities) : ValidSeverities[k] # Lower(finding.severidad)
        THEN <<Err("Severidad no es válida", i, finding.severidad, 0)>>
        ELSE << >>)
    \o (IF Blank(finding.impacto) THEN <<Err("El impacto es obligatorio", i, 0, 0)>>
        ELSE << >>)

RECURSIVE Concat(_)
Concat(seqs) == IF seqs = << >> THEN << >> ELSE Head(seqs) \o Concat(Tail(seqs))

ValidateFindings(findings) ==
    IF findings = << >>
    THEN Errors(<<Err("El reporte debe contener al menos un hallazgo", 0, 0, 0)>>)
    ELSE Errors(Concat([i \in 1..Len(findings) |-> FindingErrors(findings[i], i)]))

\* ---------------------------------------------- _validate_recommendations
\* An item is a str ([kind "str", text]) or a domain Recommendation object
\* ([kind "Recommendation"]), which is truthy and has no method strip.
RecommendationErrors(rec, i) ==
    IF Blank(rec.text) THEN <<Err("Recomendación: No puede estar vacía", i, 0, 0)>>
    ELSE IF Len(Strip(rec.text)) < 10
         THEN <<Err("Recomendación: Debe tener al menos 10 caracteres", i, 0, 0)>>
    ELSE << >>

ValidateRecommendations(recommendations) ==
    IF recommendations = << >>
    THEN Errors(<<Err("El reporte debe contener al menos una recomendación", 0, 0, 0)>>)
    ELSE IF \E i \in 1..Len(recommendations) : recommendations[i].kind # "str"
         THEN Raises("AttributeError")
    ELSE Errors(Concat([i \in 1..Len(recommendations) |->
                            RecommendationErrors(recommendations[i], i)]))

\* ----------------------------------------------- _validate_technical_data
EndpointErrors(endpoint, i) ==
    IF Strip(endpoint) = << >> THEN <<Err("Endpoint: No puede estar vacío", i, 0, 0)>>
    ELSE IF ~(MatchesUrl(endpoint) \/ MatchesIp(BeforeColon(endpoint)))
         THEN <<Err("Endpoint no tiene un formato válido de URL o IP", i, endpoint, 0)>>
    ELSE << >>

ValidateTechnicalData(technical_data) ==
    LET endpoint_errors ==
            IF technical_data.endpoints_pruebas = << >>
            THEN <<Err("Debe especificar al menos un endpoint de prueba", 0, 0, 0)>>
            ELSE Concat([i \in 1..Len(technical_data.endpoints_pruebas) |->
                            EndpointErrors(technical_data.endpoints_pruebas[i], i)])
    IN  IF ~HasAttr(technical_data, "herramientas_utilizadas") THEN Raises("AttributeError")
        ELSE Errors(endpoint_errors
                    \o (IF technical_data.herramientas_utilizadas = << >>
                        THEN <<Err("Debe especificar al menos una herramienta utilizada", 0, 0, 0)>>
                        ELSE << >>))

\* ------------------------------------------- _validate_report_consistency
\* ValidateReportConsistency without the rule on the proportion.
ValidateReportConsistencyCriticalOnly(report) ==
    LET findings_count        == Len(report.hallazgos_principales)
        recommendations_count == Len(report.recomendaciones)
        critical_findings ==
            { i \in 1..findings_count :
                Lower(report.hallazgos_principales[i].severidad) = "crítica" }
    IN  Errors(IF critical_findings # {}
                  /\ recommendations_count < Cardinality(critical_findings)
               THEN <<Err("Los hallazgos críticos requieren recomendaciones específicas",
                          0, 0, 0)>>
               ELSE << >>)

ValidateReportConsistency(report) ==
    LET findings_count        == Len(report.hallazgos_principales)
        recommendations_count == Len(report.recomendaciones)
        critical_findings ==
            { i \in 1..findings_count :
                Lower(report.hallazgos_principales[i].severidad) = "crítica" }
    IN  Errors((IF 2 * recommendations_count < findings_count
                THEN <<Err("Pocas recomendaciones para la cantidad de hallazgos", 0,
                           recommendations_count, findings_count)>>
                ELSE << >>)
               \o (IF critical_findings # {}
                      /\ recommendations_count < Cardinality(critical_findings)
                   THEN <<Err("Los hallazgos críticos requieren recomendaciones específicas",
                              0, 0, 0)>>
                   ELSE << >>))

\* ----------------------------------------------- validate_security_report
\* [status "returned", is_valid, errors] or [status "raised", ...]
Validation(result) ==
    IF result.raised
    THEN [status |-> "raised", is_valid |-> FALSE, errors |-> result.errors]
    ELSE [status |-> "returned", is_valid |-> Len(result.errors) = 0,
          errors |-> result.errors]

ValidateSecurityReport(report) ==
    Validation(ExtendAll(<< ValidateDocumentMetadata(report),
                            ValidateFindings(report.hallazgos_principales),
                            ValidateRecommendations(report.recomendaciones),
                            ValidateTechnicalData(report.datos_tecnicos),
                            ValidateReportConsistency(report) >>))

\* --------------------------------------------------- get_validation_score
\* The score is in tenths; [status, score].
GetValidationScore(report) ==
    LET validation == ValidateSecurityReport(report)
        findings   == report.hallazgos_principales
        findings_with_poc ==
            Cardinality({ i \in 1..Len(findings) :
                            findings[i].detailed_proof_of_concept # << >> })
        unique_categories ==
            Cardinality({ findings[i].categoria : i \in 1..Len(findings) })
        penalty == Min(Len(validation.errors) * 5, 80)
    IN  IF validation.status = "raised"
        THEN [status |-> "raised", score |-> 0]
        ELSE IF ~validation.is_valid
             THEN [status |-> "returned",
                   score |-> IF 100 - penalty > 0 THEN 100 - penalty ELSE 0]
        ELSE [status |-> "returned",
              score |-> Min(80 + (IF Len(findings) >= 5 THEN 5 ELSE 0)
                               + (IF Len(report.recomendaciones) >= Len(findings)
                                  THEN 5 ELSE 0)
                               + (IF 2 * findings_with_poc >= Len(findings) THEN 5 ELSE 0)
                               + (IF unique_categories >= 3 THEN 5 ELSE 0),
                            100)]

\* ------------------------------------- _validate_triaged_vulnerabilities
\* Scores are in tenths, confidences in thousandths.  `not x` is true of 0.
TriagedVulnerabilityErrors(vuln, i) ==
    LET severity_score   == vuln.analysis.severity_score
        confidence_score == vuln.analysis.confidence_score
    IN  (IF vuln.original_finding.nombre = << >>
         THEN <<Err("El nombre del hallazgo original es obligatorio", i, 0, 0)>>
         ELSE << >>)
        \o (IF severity_score = 0 \/ severity_score < 0 \/ severity_score > 100
            THEN <<Err("El score de severidad debe estar entre 0 y 10", i, 0, 0)>>
            ELSE << >>)
        \o (IF confidence_score = 0 \/ confidence_score < 0 \/ confidence_score > 1000
            THEN <<Err("El score de confianza debe estar entre 0 y 1", i, 0, 0)>>
            ELSE << >>)
        \o (IF vuln.recommendations = << >>
            THEN <<Err("Debe tener al menos una recomendación", i, 0, 0)>>
            ELSE << >>)
        \o Concat([j \in 1..Len(vuln.evidence) |->
                     IF vuln.evidence[j].description = << >>
                     THEN <<Err("Evidencia: La descripción es obligatoria", i, j, 0)>>
                     ELSE << >>])

\* The attributes the loop reads of a vulnerability.
TriagedVulnerabilityAttrsRead == {"original_finding", "analysis", "recommendations", "evidence"}

ValidateTriagedVulnerabilities(vulnerabilities) ==
    IF vulnerabilities = << >>
    THEN Errors(<<Err("El reporte de triage debe contener al menos una vulnerabilidad",
                      0, 0, 0)>>)
    ELSE IF \E i \in 1..Len(vulnerabilities) :
                ~(TriagedVulnerabilityAttrsRead \subseteq DOMAIN vulnerabilities[i])
         THEN Raises("AttributeError")
    ELSE Errors(Concat([i \in 1..Len(vulnerabilities) |->
                           TriagedVulnerabilityErrors(vulnerabilities[i], i)]))

\* ----------------------------------------------- _validate_triage_summary
SummaryCounts(summary) ==
    << summary.total_vulnerabilities, summary.critical_count, summary.high_count,
       summary.medium_count, summary.low_count, summary.info_count >>

\* ValidateTriageSummary with the informational count left out of the sum.
ValidateTriageSummaryWithoutInfo(summary) ==
    LET total_calculated == summary.critical_count + summary.high_count
                            + summary.medium_count + summary.low_count
        counts == SummaryCounts(summary)
    IN  Errors((IF summary.total_vulnerabilities # total_calculated
                THEN <<Err("Inconsistencia en conteos: total != suma de severidades", 0,
                           summary.total_vulnerabilities, total_calculated)>>
                ELSE << >>)
               \o Concat([k \in 1..Len(counts) |->
                            IF counts[k] < 0
                            THEN <<Err("El conteo de vulnerabilidades no puede ser negativo",
                                       k, 0, 0)>>
                            ELSE << >>]))

ValidateTriageSummary(summary) ==
    LET total_calculated == summary.critical_count + summary.high_count
                            + summary.medium_count + summary.low_count
                            + summary.info_count
        counts == SummaryCounts(summary)
    IN  Errors((IF summary.total_vulnerabilities # total_calculated
                THEN <<Err("Inconsistencia en conteos: total != suma de severidades", 0,
                           summary.total_vulnerabilities, total_calculated)>>
                ELSE << >>)
               \o Concat([k \in 1..Len(counts) |->
                            IF counts[k] < 0
                            THEN <<Err("El conteo de vulnerabilidades no puede ser negativo",
                                       k, 0, 0)>>
                            ELSE << >>]))

\* ---------------------------------------------- _validate_triage_metadata
ValidateTriageMetadata(metadata) ==
    Errors((IF metadata.analysis_date = "none"
            THEN <<Err("La fecha de análisis es obligatoria", 0, 0, 0)>>
            ELSE IF metadata.analysis_date = "future"
                 THEN <<Err("La fecha de análisis no puede ser futura", 0, 0, 0)>>
            ELSE << >>)
           \o (IF Blank(metadata.analyst)
               THEN <<Err("El analista es obligatorio", 0, 0, 0)>>
               ELSE << >>))

\* ------------------------------------- _count_vulnerabilities_by_severity
CountBySeverity(vulnerabilities, names) ==
    Cardinality({ i \in 1..Len(vulnerabilities) :
                    Lower(vulnerabilities[i].analysis.final_severity) \in names })

CountVulnerabilitiesBySeverity(vulnerabilities) ==
    [ critical |-> CountBySeverity(vulnerabilities, {"crítica", "critical"}),
      high     |-> CountBySeverity(vulnerabilities, {"alta", "high"}),
      medium   |-> CountBySeverity(vulnerabilities, {"media", "medium"}),
      low      |-> CountBySeverity(vulnerabilities, {"baja", "low"}),
      info     |-> CountBySeverity(vulnerabilities, {"informativa", "info", "informational"}) ]

\* ------------------------------------------- _validate_triage_consistency
ValidateTriageConsistency(report) ==
    LET actual_counts == CountVulnerabilitiesBySeverity(report.vulnerabilities)
        Check(msg, actual, expected) ==
            IF actual # expected THEN <<Err(msg, 0, expected, actual)>> ELSE << >>
    IN  Errors(Check("Conteo de vulnerabilidades críticas inconsistente",
                     actual_counts.critical, report.summary.critical_count)
               \o Check("Conteo de vulnerabilidades altas inconsistente",
                        actual_counts.high, report.summary.high_count)
               \o Check("Conteo de vulnerabilidades medias inconsistente",
                        actual_counts.medium, report.summary.medium_count)
               \o Check("Conteo de vulnerabilidades bajas inconsistente",
                        actual_counts.low, report.summary.low_count)
               \o Check("Conteo de vulnerabilidades informativas inconsistente",
                        actual_counts.info, report.summary.info_count))

\* ------------------------------------------------- validate_triage_report
\* The attributes validate_triage_report reads of the report.
TriageReportAttrsRead == {"vulnerabilities", "summary", "metadata"}

ValidateTriageReport(report) ==
    IF ~(TriageReportAttrsRead \subseteq DOMAIN report)
    THEN Validation(Raises("AttributeError"))
    ELSE LET first == ValidateTriagedVulnerabilities(report.vulnerabilities)
         IN  IF first.raised THEN Validation(first)
             ELSE Validation(ExtendAll(<< first,
                                          ValidateTriageSummary(report.summary),
                                          ValidateTriageMetadata(report.metadata),
                                          ValidateTriageConsistency(report) >>))

\* ------------------------------------------ inputs of the validation service
\* Each report comes in two builds: as the domain models build it
\* (DocumentMetadata has `fecha` and no `fecha_creacion`, TechnicalData has
\* no `herramientas_utilizadas`, the recommendations are Recommendation
\* objects, a TriageReport has `vulnerabilidades` and neither `summary` nor
\* `metadata`), and as an object that carries every attribute the validator
\* reads.
Titles  == { << >>, Xs(4), Sp(1) \o Xs(5) \o Sp(1) }
Authors == { << >>, <<"a", "b", "c">>,
             <<"a", "@", "b", ".", "x", "x">>, <<"a", "@", "b">> }

GoodFinding ==
    [ nombre |-> Xs(3), categoria |-> <<"a">>, descripcion |-> Xs(25),
      severidad |-> "alta", impacto |-> Xs(4), detailed_proof_of_concept |-> << >> ]
UpperFinding ==
    [ nombre |-> Xs(3), categoria |-> <<"b">>, descripcion |-> Xs(20),
      severidad |-> "CRÍTICA", impacto |-> Xs(4), detailed_proof_of_concept |-> Xs(2) ]
BadFinding ==
    [ nombre |-> Xs(2), categoria |-> Sp(1), descripcion |-> Xs(19),
      severidad |-> "critical", impacto |-> << >>, detailed_proof_of_concept |-> << >> ]
\* lists of up to MaxFindings findings, and one longer list of well-formed ones
FindingLists ==
    UNION { [1..n -> {GoodFinding, UpperFinding, BadFinding}] : n \in 0..MaxFindings }
    \cup { [i \in 1..(MaxFindings + 1) |-> GoodFinding] }

StrRecommendation(text) == [kind |-> "str", text |-> text]
RecommendationObject    == [kind |-> "Recommendation", text |-> << >>]
StrRecommendationLists ==
    UNION { [1..n -> {StrRecommendation(Xs(9)), StrRecommendation(Xs(10))}] :
              n \in 0..MaxRecommendations }
RecommendationObjectLists ==
    UNION { [1..n -> {RecommendationObject}] : n \in 0..MaxRecommendations }

UrlEndpoint == <<"S", "x", ".", "x">>
IpEndpoint  == <<"1", ".", "1", "1", ".", "1", ".", "1", "1", "1", ":", "1">>
BadEndpoint == <<"x", "x">>
EndpointLists == { << >>, <<UrlEndpoint>>, <<IpEndpoint, BadEndpoint>>, <<Sp(1)>> }

ModelSecurityReports ==
    { [ documento |-> [titulo |-> t, autor |-> a, fecha |-> "past"],
        hallazgos_principales |-> fs,
        recomendaciones |-> rs,
        datos_tecnicos |-> [endpoints_pruebas |-> es] ] :
        t \in Titles, a \in Authors, fs \in FindingLists,
        rs \in RecommendationObjectLists, es \in {<<UrlEndpoint>>} }

AttrSecurityReports ==
    { [ documento |-> [titulo |-> t, autor |-> a, fecha_creacion |-> d],
        hallazgos_principales |-> fs,
        recomendaciones |-> rs,
        datos_tecnicos |-> [endpoints_pruebas |-> es, herramientas_utilizadas |-> hs] ] :
        t \in Titles, a \in Authors, d \in {"none", "past", "future"},
        fs \in FindingLists, rs \in StrRecommendationLists, es \in EndpointLists,
        hs \in { << >>, <<Xs(4)>> } }

SecurityReportsToValidate == ModelSecurityReports \cup AttrSecurityReports

BuiltFromModels(report) ==
    \/ ("documento" \in DOMAIN report /\ ~HasAttr(report.documento, "fecha_creacion"))
    \/ "vulnerabilidades" \in DOMAIN report

\* triaged vulnerabilities
ModelTriagedVulns ==
    { [ nombre |-> Xs(3), severidad_triage |-> "alta", confianza_analisis |-> c,
        recomendaciones |-> << >>, evidencias |-> << >> ] : c \in {0, 800} }

ScoreSamples      == {-1, 0, 1, 100, 101}
ConfidenceSamples == {-1, 0, 1, 1000, 1001}
AttrTriagedVulns ==
    { [ original_finding |-> [nombre |-> n],
        analysis |-> [severity_score |-> s, confidence_score |-> c,
                      final_severity |-> "alta"],
        recommendations |-> rs,
        evidence |-> << >> ] :
        n \in {Xs(3)}, s \in ScoreSamples, c \in ConfidenceSamples,
        rs \in { << >>, <<Xs(10)>> } }
TriagedVulnLists ==
    UNION { [1..n -> ModelTriagedVulns] \cup [1..n -> AttrTriagedVulns] : n \in 0..MaxTriaged }

\* summaries
Summaries ==
    { [ total_vulnerabilities |-> t, critical_count |-> c, high_count |-> h,
        medium_count |-> m, low_count |-> l, info_count |-> i ] :
        t \in (-1)..(5 * MaxCount + 1),
        c \in (-1)..MaxCount, h \in 0..MaxCount, m \in 0..MaxCount,
        l \in 0..MaxCount, i \in 0..MaxCount }

\* triage reports
ReportVuln(final_severity, evidence) ==
    [ original_finding |-> [nombre |-> Xs(3)],
      analysis |-> [severity_score |-> 50, confidence_score |-> 500,
                    final_severity |-> final_severity],
      recommendations |-> <<Xs(10)>>,
      evidence |-> evidence ]
ReportVulnLists ==
    UNION { [1..n -> { ReportVuln("crítica", << >>), ReportVuln("HIGH", << >>),
                       ReportVuln("urgent", <<[description |-> << >>]>>) }] :
              n \in 0..MaxTriaged }
ReportSummaries ==
    { s \in Summaries : s.critical_count >= 0 /\ s.medium_count = 0
                        /\ s.low_count = 0 /\ s.info_count = 0
                        /\ s.total_vulnerabilities \in 0..2 }
ReportMetadatas ==
    { [analysis_date |-> d, analyst |-> a] :
        d \in {"none", "past", "future"}, a \in { << >>, Xs(3) } }

ModelTriageReports ==
    { [ vulnerabilidades |-> vs, total_vulnerabilidades |-> Len(vs) ] :
        vs \in UNION { [1..n -> ModelTriagedVulns] : n \in 0..MaxTriaged } }
AttrTriageReports ==
    { [ vulnerabilities |-> vs, summary |-> s, metadata |-> m ] :
        vs \in ReportVulnLists, s \in ReportSummaries, m \in ReportMetadatas }
TriageReportsToValidate == ModelTriageReports \cup AttrTriageReports

\* ------------------------------------------ calls of the validation service
CallValidateSecurityReport ==
    /\ val_call = NoCall
    /\ \E report \in SecurityReportsToValidate :
         val_call' = Call("validate_security_report", report,
                          ValidateSecurityReport(report))
    /\ UNCHANGED <<val_prev, agentVars, svcVars, ucVars, parseVars, caVars, runVars, facVars, normVars>>

CallGetValidationScore ==
    /\ val_call = NoCall
    /\ \E report \in SecurityReportsToValidate :
         val_call' = Call("get_validation_score", report, GetValidationScore(report))
    /\ UNCHANGED <<val_prev, agentVars, svcVars, ucVars, parseVars, caVars, runVars, facVars, normVars>>

CallValidateTriageReport ==
    /\ val_call = NoCall
    /\ \E report \in TriageReportsToValidate :
         val_call' = Call("validate_triage_report", report, ValidateTriageReport(report))
    /\ UNCHANGED <<val_prev, agentVars, svcVars, ucVars, parseVars, caVars, runVars, facVars, normVars>>

CallValidateTriagedVulnerabilities ==
    /\ val_call = NoCall
    /\ \E vulnerabilities \in TriagedVulnLists :
         val_call' = Call("_validate_triaged_vulnerabilities", vulnerabilities,
                          ValidateTriagedVulnerabilities(vulnerabilities))
    /\ UNCHANGED <<val_prev, agentVars, svcVars, ucVars, parseVars, caVars, runVars, facVars, normVars>>

CallValidateTriageSummary ==
    /\ val_call = NoCall
    /\ \E summary \in Summaries :
         val_call' = Call("_validate_triage_summary", summary,
                          ValidateTriageSummary(summary))
    /\ UNCHANGED <<val_prev, agentVars, svcVars, ucVars, parseVars, caVars, runVars, facVars, normVars>>

\* reports scored one after the other: the document in order or not, one
\* finding or none, one recommendation or none
ComparedReports ==
    { [ documento |-> [titulo |-> t, autor |-> <<"a", "b", "c">>, fecha_creacion |-> d],
        hallazgos_principales |-> fs,
        recomendaciones |-> rs,
        datos_tecnicos |-> [endpoints_pruebas |-> <<UrlEndpoint>>,
                            herramientas_utilizadas |-> <<Xs(4)>>] ] :
        t \in { << >>, Sp(1) \o Xs(5) \o Sp(1) }, d \in {"past", "future"},
        fs \in { << >>, <<GoodFinding>>, <<UpperFinding>>, <<BadFinding>> },
        rs \in { << >>, <<StrRecommendation(Xs(9))>>, <<StrRecommendation(Xs(10))>> } }

\* a second call of get_validation_score, on another report
CallGetValidationScoreAgain ==
    /\ val_prev = NoCall
    /\ val_call # NoCall
    /\ val_call.op = "get_validation_score"
    /\ val_call.arg \in ComparedReports
    /\ val_prev' = val_call
    /\ \E report \in ComparedReports :
         val_call' = Call("get_validation_score", report, GetValidationScore(report))
    /\ UNCHANGED <<agentVars, svcVars, ucVars, parseVars, caVars, runVars, facVars, normVars>>

SecurityValidationNext ==
    \/ CallValidateSecurityReport
    \/ CallGetValidationScore
    \/ CallGetValidationScoreAgain

TriageValidationNext ==
    \/ CallValidateTriageReport
    \/ CallValidateTriagedVulnerabilities
    \/ CallValidateTriageSummary

\* ==================================== TriageAgent._parse_triage_response, on text
\* The text of a response is a sequence of tokens, each one standing for a
\* piece of text:
\*   "{"  {            "}"  }            ","  ,           " "  a newline
\*   "a"  "a": 1       "k"  "k":         "x"  a word of prose
\*   "L"  "l": "{"     "R"  "r": "}"     (braces inside string literals)
\*   "F"  ```json      "E"  ```
\* and two pieces that a span cut inside a string literal starts or ends with:
\*   "l"  {"           "r"  "r": "}
Tokens == { "{", "}", ",", " ", "a", "k", "x", "L", "R", "F", "E" }

\* the characters '{' and '}' a token holds, as the scan of lines 254-261 counts them
OpensBrace(tok)  == tok \in { "{", "L" }
ClosesBrace(tok) == tok \in { "}", "R" }

\* ---------------------------------------------------------------- json.loads
\* A JSON object is the set of its <<key, value>> pairs, one per key.
JsonFail == [ok |-> FALSE, value |-> {}, next |-> 0]

SetKey(obj, key, value) ==
    { pair \in obj : pair[1] # key } \cup { <<key, value>> }

\* The members of an object from position p of t, which has no whitespace:
\* after "{" (st = "first"), after "," (st = "member") or after a member
\* (st = "sep").  A key met again replaces the earlier value.
RECURSIVE ParseMembers(_, _, _, _)
ParseMembers(t, p, acc, st) ==
    IF p > Len(t) THEN JsonFail
    ELSE IF st = "sep" THEN
        IF t[p] = "}" THEN [ok |-> TRUE, value |-> acc, next |-> p + 1]
        ELSE IF t[p] = "," THEN ParseMembers(t, p + 1, acc, "member")
        ELSE JsonFail
    ELSE IF t[p] = "}" THEN
        IF st = "first" THEN [ok |-> TRUE, value |-> acc, next |-> p + 1]
        ELSE JsonFail
    ELSE IF t[p] = "a" THEN ParseMembers(t, p + 1, SetKey(acc, "a", 1), "sep")
    ELSE IF t[p] = "L" THEN ParseMembers(t, p + 1, SetKey(acc, "l", "{"), "sep")
    ELSE IF t[p] = "R" THEN ParseMembers(t, p + 1, SetKey(acc, "r", "}"), "sep")
    ELSE IF t[p] = "k" /\ p + 1 <= Len(t) /\ t[p + 1] = "{" THEN
        LET inner == ParseMembers(t, p + 2, {}, "first")
        IN  IF inner.ok
            THEN ParseMembers(t, inner.next, SetKey(acc, "k", inner.value), "sep")
            ELSE JsonFail
    ELSE JsonFail

WithoutWhitespace(text) == SelectSeq(text, LAMBDA tok : tok # " ")

\* json.loads(json_str): the object, or JSONDecodeError (ok = FALSE) when the
\* text is not one JSON value with nothing but whitespace around it
JsonLoads(json_str) ==
    LET t == WithoutWhitespace(json_str)
    IN  IF t = << >> \/ t[1] # "{" THEN [ok |-> FALSE, value |-> {}]
        ELSE LET parsed == ParseMembers(t, 2, {}, "first")
             IN  IF parsed.ok /\ parsed.next = Len(t) + 1
                 THEN [ok |-> TRUE, value |-> parsed.value]
                 ELSE [ok |-> FALSE, value |-> {}]

\* ------------------------------- re.search(r'```json\s*({.*?})\s*```', DOTALL)
\* the first token that is not whitespace after position i, or Len + 1
RECURSIVE SkipWhitespace(_, _)
SkipWhitespace(response, i) ==
    IF i + 1 > Len(response) THEN Len(response) + 1
    ELSE IF response[i + 1] = " " THEN SkipWhitespace(response, i + 1)
    ELSE i + 1

\* \s*``` after position q: "```json" starts with "```" too
FenceFollows(response, q) ==
    LET j == SkipWhitespace(response, q)
    IN  j <= Len(response) /\ response[j] \in { "E", "F" }

\* the match that starts at position i: [matched, first, last], group(1) being
\* response[first..last]; .*? takes the first "}" that a fence follows
MatchFencedAt(response, i) ==
    LET first == SkipWhitespace(response, i)
        lasts == { q \in first + 1..Len(response) :
                     response[q] = "}" /\ FenceFollows(response, q) }
    IN  IF /\ response[i] = "F"
           /\ first <= Len(response)
           /\ response[first] = "{"
           /\ lasts # {}
        THEN [matched |-> TRUE, first |-> first,
              last |-> CHOOSE q \in lasts : \A o \in lasts : q <= o]
        ELSE [matched |-> FALSE, first |-> 0, last |-> 0]

\* re.search: the match at the leftmost position that has one
RECURSIVE SearchFencedFrom(_, _)
SearchFencedFrom(response, i) ==
    IF i > Len(response) THEN [matched |-> FALSE, first |-> 0, last |-> 0]
    ELSE IF MatchFencedAt(response, i).matched THEN MatchFencedAt(response, i)
    ELSE SearchFencedFrom(response, i + 1)

SearchFenced(response) == SearchFencedFrom(response, 1)

\* ------------------------------------------------- the scan of lines 249-261
\* response.find('{'): the first token holding a '{', or 0
FindBrace(response) ==
    LET opens == { i \in 1..Len(response) : OpensBrace(response[i]) }
    IN  IF opens = {} THEN 0 ELSE CHOOSE i \in opens : \A o \in opens : i <= o

\* a scan that does not break at the first '}' taking brace_count to zero but
\* goes on to the last one
RECURSIVE ScanBracesToLast(_, _, _)
ScanBracesToLast(response, i, brace_count) ==
    IF i > Len(response) THEN 0
    ELSE IF OpensBrace(response[i]) THEN ScanBracesToLast(response, i + 1, brace_count + 1)
    ELSE IF ClosesBrace(response[i]) THEN
        LET later == ScanBracesToLast(response, i + 1, brace_count - 1)
        IN  IF brace_count - 1 = 0 /\ later = 0 THEN i ELSE later
    ELSE ScanBracesToLast(response, i + 1, brace_count)

\* the loop over response[start_pos:]: the token whose '}' takes brace_count
\* to zero (the loop breaks there), or 0 when the loop ends without a break
RECURSIVE ScanBraces(_, _, _)
ScanBraces(response, i, brace_count) ==
    IF i > Len(response) THEN 0
    ELSE IF OpensBrace(response[i]) THEN ScanBraces(response, i + 1, brace_count + 1)
    ELSE IF ClosesBrace(response[i]) THEN
        IF brace_count - 1 = 0 THEN i
        ELSE ScanBraces(response, i + 1, brace_count - 1)
    ELSE ScanBraces(response, i + 1, brace_count)

\* response[start_pos:end_pos]: a span that starts at the '{' inside "L" or
\* ends at the '}' inside "R" holds only a piece of that string literal; with
\* no break end_pos stays start_pos and the span is empty
BraceSpan(response) ==
    LET start == FindBrace(response)
        end   == ScanBraces(response, start, 0)
    IN  IF end = 0 THEN << >>
        ELSE [ i \in 1..(end - start + 1) |->
                 IF i = 1 /\ response[start] = "L" THEN "l"
                 ELSE IF i = end - start + 1 /\ response[end] = "R" THEN "r"
                 ELSE response[start + i - 1] ]

\* ----------------------------------------------------- _parse_triage_response
Returned(value) == [status |-> "returned", value |-> value]
Raised(exc)     == [status |-> "raised", exc |-> exc]

\* the body of the try block, lines 240-265
ParseTriageResponseBody(response) ==
    LET json_match == SearchFenced(response)
    IN  IF json_match.matched
        THEN LET loaded == JsonLoads(SubSeq(response, json_match.first, json_match.last))
             IN  IF loaded.ok THEN Returned(loaded.value) ELSE Raised("JSONDecodeError")
        ELSE IF FindBrace(response) # 0
        THEN LET loaded == JsonLoads(BraceSpan(response))
             IN  IF loaded.ok THEN Returned(loaded.value) ELSE Raised("JSONDecodeError")
        ELSE Raised("JSONParsingError")

\* the two handlers, lines 267-275: both raise JSONParsingError
ParseTriageResponseText(response) ==
    LET body == ParseTriageResponseBody(response)
    IN  IF body.status = "raised" THEN Raised("JSONParsingError") ELSE body

\* ------------------------------------------------------ inputs of the parser
\* texts of objects: well formed, and broken in the ways a reply can be
ObjectTexts ==
    { <<"{", "}">>,
      <<"{", "a", "}">>,
      <<"{", "a", ",", "k", "{", "a", "}", "}">>,
      <<"{", "k", "{", "}", ",", "a", ",", "a", "}">>,
      <<"{", "L", "}">>,
      <<"{", "R", "}">>,
      <<"{", "L", ",", "R", "}">>,
      <<"{", "k", "{", "a", "}">>,
      <<"{", "a", ",", "}">> }

\* an object in prose, two objects, an object in a ```json block, an object
\* before a ```json block, an object in a block that is not marked json
WrappedObjectTexts ==
    { <<"x", " ">> \o o \o <<" ", "x">> : o \in ObjectTexts }
    \cup { o[1] \o <<"x">> \o o[2] : o \in ObjectTexts \X ObjectTexts }
    \cup { <<"x", "F", " ">> \o o \o <<" ", "E", "x">> : o \in ObjectTexts }
    \cup { o[1] \o <<"F">> \o o[2] \o <<"E">> : o \in ObjectTexts \X ObjectTexts }
    \cup { <<"E", " ">> \o o \o <<"E">> : o \in ObjectTexts }

\* every text of at most MaxResponse tokens, and the wrapped objects
Responses ==
    UNION { [1..n -> Tokens] : n \in 0..MaxResponse } \cup WrappedObjectTexts

\* ------------------------------------------------------- calls of the parser
CallParseTriageResponse ==
    /\ parse_call = NoCall
    /\ \E response \in Responses :
         parse_call' = Call("_parse_triage_response", response,
                            ParseTriageResponseText(response))
    /\ UNCHANGED <<agentVars, svcVars, ucVars, valVars, caVars, runVars, facVars, normVars>>

ParserNext == CallParseTriageResponse

\* ============================================ CompleteSecurityAnalysisUseCase
\* Scores are in tenths, confidences in thousandths, the overall quality score
\* in hundredths.
\* ------------------------------------------ _calculate_overall_quality_score
\* the three weights without the factor 10 that turns the confidence into a score
QualityThousandthsUnscaled(pdf_metrics, triage_metrics) ==
    40 * Get(pdf_metrics, "validation_score", 0)
    + 30 * Get(pdf_metrics, "coverage_score", 0)
    + (3 * Get(triage_metrics, "avg_confidence_score", 0)) \div 10

\* pdf_score + coverage_score + confidence_score of lines 243-247, in
\* thousandths: 0.4 v + 0.3 c + 0.3 (10 t)
QualityThousandths(pdf_metrics, triage_metrics) ==
    40 * Get(pdf_metrics, "validation_score", 0)
    + 30 * Get(pdf_metrics, "coverage_score", 0)
    + 3 * Get(triage_metrics, "avg_confidence_score", 0)

\* round(x, 2) of a float x worth n thousandths, in hundredths: the nearest
\* hundredth; when n lies halfway between two, the float that stands for it is a
\* little above or a little below, and round gives the one or the other
Round2(n) ==
    IF n % 10 = 5 THEN { n \div 10, n \div 10 + 1 } ELSE { (n + 5) \div 10 }

CalculateOverallQualityScore(pdf_metrics, triage_metrics) ==
    Round2(QualityThousandths(pdf_metrics, triage_metrics))

\* --------------------------------------------- _generate_security_priorities
\* the key of line 256, and its order on tuples
PriorityKey(v) == <<v.analysis.severity_score, v.analysis.confidence_score>>

\* an order that compares the severity score alone
TupleAtLeastFirstOnly(a, b) == a[1] >= b[1]

TupleAtLeast(a, b) == a[1] > b[1] \/ (a[1] = b[1] /\ a[2] >= b[2])

\* sorted(..., reverse=True): descending, equal keys staying in their order
RECURSIVE InsertDescending(_, _)
InsertDescending(sorted, x) ==
    IF sorted = << >> THEN <<x>>
    ELSE IF TupleAtLeast(PriorityKey(Head(sorted)), PriorityKey(x))
         THEN <<Head(sorted)>> \o InsertDescending(Tail(sorted), x)
         ELSE <<x>> \o sorted

RECURSIVE SortDescendingFrom(_, _)
SortDescendingFrom(done, rest) ==
    IF rest = << >> THEN done
    ELSE SortDescendingFrom(InsertDescending(done, Head(rest)), Tail(rest))

\* sorted_vulns[:5]
TopFive(sorted_vulns) == SubSeq(sorted_vulns, 1, Min(5, Len(sorted_vulns)))

GenerateSecurityPriorities(triage_analysis) ==
    LET vulnerabilities == Get(triage_analysis.triage_report, "vulnerabilities", << >>)
        top == TopFive(SortDescendingFrom(<< >>, vulnerabilities))
    IN  [i \in 1..Len(top) |->
            [ rank               |-> i,
              vulnerability      |-> top[i].original_finding.nombre,
              severity           |-> top[i].analysis.final_severity,
              priority           |-> top[i].analysis.final_priority,
              confidence         |-> top[i].analysis.confidence_score,
              key_recommendation |->
                  IF top[i].recommendations # << >>
                  THEN top[i].recommendations[1].description
                  ELSE "No disponible" ]]

\* ------------------------------------------- inputs of the complete analysis
\* quality metrics, each present or not: scores around [0,10], confidences
\* around [0,1], some of them halfway between two hundredths once weighted
PdfMetrics ==
    { [validation_score |-> v, coverage_score |-> c] :
        v \in {0, 85, 100}, c \in {0, 37, 100, 120} }
    \cup { [validation_score |-> v] : v \in {0, 85, 100} }
    \cup { [coverage_score |-> c] : c \in {-10, 37, 100} }
    \cup { [is_valid |-> FALSE] }

TriageMetrics ==
    { [avg_confidence_score |-> t] : t \in {-100, 0, 5, 45, 135, 800, 995, 1000, 1100} }
    \cup { [is_valid |-> FALSE] }

\* the vulnerabilities of a dumped triage report, named after their place
PriorityVulnKinds ==
    { <<50, 500, << >>>>, <<50, 900, <<[description |-> "r1"]>>>>,
      <<90, 500, <<[description |-> "r2"], [description |-> "r3"]>>>>,
      <<90, 900, <<[description |-> "r4"]>>>> }

PriorityVuln(i, kind) ==
    [ original_finding |-> [nombre |-> i],
      analysis |-> [ severity_score |-> kind[1], confidence_score |-> kind[2],
                     final_severity |-> IF kind[1] >= 90 THEN "crítica" ELSE "media",
                     final_priority |-> IF kind[1] >= 90 THEN "P0" ELSE "P2" ],
      recommendations |-> kind[3] ]

TriageAnalyses ==
    { [triage_report |-> [summary |-> "s"]] }
    \cup UNION { { [triage_report |->
                      [vulnerabilities |-> [i \in 1..n |-> PriorityVuln(i, kinds[i])]]] :
                   kinds \in [1..n -> PriorityVulnKinds] } : n \in 0..MaxVulns }

\* -------------------------------------------- calls of the complete analysis
CallOverallQualityScore ==
    /\ ca_call = NoCall
    /\ \E pdf_metrics \in PdfMetrics, triage_metrics \in TriageMetrics :
         \E score \in CalculateOverallQualityScore(pdf_metrics, triage_metrics) :
            ca_call' = Call("_calculate_overall_quality_score",
                            <<pdf_metrics, triage_metrics>>, score)
    /\ UNCHANGED <<agentVars, svcVars, ucVars, valVars, parseVars, runVars, facVars, normVars>>

CallSecurityPriorities ==
    /\ ca_call = NoCall
    /\ \E triage_analysis \in TriageAnalyses :
         ca_call' = Call("_generate_security_priorities", triage_analysis,
                         GenerateSecurityPriorities(triage_analysis))
    /\ UNCHANGED <<agentVars, svcVars, ucVars, valVars, parseVars, runVars, facVars, normVars>>

CompleteHelpersNext ==
    \/ CallOverallQualityScore
    \/ CallSecurityPriorities

\* ------------------------------------------- execute / execute_with_export
\* A run goes through the steps of the two methods, each of which returns or
\* raises; what the injected use cases, the file system and the exporter do is
\* the choice of `ok`.  A message is the sequence of its parts, str(e) of a
\* cause being the cause's parts.
ExportFormats == { "json", "JSON", "html", "pdf", "all", "xml" }

Causes == { <<"PDFReadError">>, <<"disk full">> }

\* raise Exception(f"{context}: {str(e)}") without the cause
RaiseBare(context, cause) ==
    [status |-> "raised", type |-> "Exception", message |-> <<context>>]

\* raise Exception(f"{context}: {str(e)}"), lines 71 and 112
RaiseWrapped(context, cause) ==
    [status |-> "raised", type |-> "Exception", message |-> <<context>> \o cause]

\* an exception raised at a step of execute: the handler of line 70, and for
\* execute_with_export the handler of line 111 around it
RaisedInExecute(cfg, cause) ==
    LET inner == RaiseWrapped("Error en análisis completo de seguridad", cause)
    IN  IF cfg.entry = "execute" THEN inner
        ELSE RaiseWrapped("Error exportando análisis completo", inner.message)

\* an exception raised at a step of _export_analysis_results
RaisedInExport(cause) == RaiseWrapped("Error exportando análisis completo", cause)

\* export_format.lower() in [...]
LowerFormat(f) == IF f = "JSON" THEN "json" ELSE f

WritesJson(cfg) == LowerFormat(cfg.export_format) \in { "json", "all" }

UsesExporter(cfg) ==
    cfg.exporter /\ LowerFormat(cfg.export_format) \in { "html", "pdf", "all" }

\* a step that is not execute's last one: on to `next`, or the exception
ExecuteStep(step, next) ==
    /\ run_pc = step
    /\ \E ok \in BOOLEAN, cause \in Causes :
         /\ run_trace' = Append(run_trace, [step |-> step, ok |-> ok])
         /\ IF ok THEN run_pc' = next /\ UNCHANGED run_out
            ELSE run_pc' = "raised" /\ run_out' = RaisedInExecute(run_cfg, cause)
    /\ UNCHANGED <<run_cfg, run_files>>
    /\ UNCHANGED <<agentVars, svcVars, ucVars, valVars, parseVars, caVars, facVars, normVars>>

RunStart ==
    /\ run_pc = "idle"
    /\ \E entry \in { "execute", "execute_with_export" },
          export_format \in ExportFormats, exporter \in BOOLEAN :
         run_cfg' = [entry |-> entry, export_format |-> export_format,
                     exporter |-> exporter]
    /\ run_pc' = "pdf"
    /\ UNCHANGED <<run_trace, run_files, run_out>>
    /\ UNCHANGED <<agentVars, svcVars, ucVars, valVars, parseVars, caVars, facVars, normVars>>

\* line 54: self._pdf_use_case.execute(pdf_path)
RunPdf == ExecuteStep("pdf", "triage")

\* line 58: self._triage_use_case.execute(pdf_analysis["security_report"])
RunTriage == ExecuteStep("triage", "consolidate")

\* lines 60-68: _consolidate_analysis, and the return of execute
RunConsolidate ==
    /\ run_pc = "consolidate"
    /\ \E ok \in BOOLEAN, cause \in Causes :
         /\ run_trace' = Append(run_trace, [step |-> "consolidate", ok |-> ok])
         /\ IF ~ok
            THEN run_pc' = "raised" /\ run_out' = RaisedInExecute(run_cfg, cause)
            ELSE IF run_cfg.entry = "execute"
            THEN /\ run_pc' = "done"
                 /\ run_out' = [status |-> "returned", value |-> "complete_analysis"]
            ELSE run_pc' = "mkdir" /\ UNCHANGED run_out
    /\ UNCHANGED <<run_cfg, run_files>>
    /\ UNCHANGED <<agentVars, svcVars, ucVars, valVars, parseVars, caVars, facVars, normVars>>

\* line 313: Path(output_dir).mkdir(parents=True, exist_ok=True)
RunMkdir ==
    /\ run_pc = "mkdir"
    /\ \E ok \in BOOLEAN, cause \in Causes :
         /\ run_trace' = Append(run_trace, [step |-> "mkdir", ok |-> ok])
         /\ IF ok
            THEN /\ run_pc' = (IF WritesJson(run_cfg) THEN "write_complete" ELSE "exporter")
                 /\ UNCHANGED run_out
            ELSE run_pc' = "raised" /\ run_out' = RaisedInExport(cause)
    /\ UNCHANGED <<run_cfg, run_files>>
    /\ UNCHANGED <<agentVars, svcVars, ucVars, valVars, parseVars, caVars, facVars, normVars>>

\* lines 322-331: open(path, 'w') creates the file, json.dump fills it
RunWrite(step, file, next) ==
    /\ run_pc = step
    /\ \E ok \in BOOLEAN, created \in BOOLEAN, cause \in Causes :
         /\ run_trace' = Append(run_trace, [step |-> step, ok |-> ok])
         /\ run_files' = IF ok \/ created THEN run_files \cup {file} ELSE run_files
         /\ IF ok THEN run_pc' = next /\ UNCHANGED run_out
            ELSE run_pc' = "raised" /\ run_out' = RaisedInExport(cause)
    /\ UNCHANGED run_cfg
    /\ UNCHANGED <<agentVars, svcVars, ucVars, valVars, parseVars, caVars, facVars, normVars>>

RunWriteComplete == RunWrite("write_complete", "complete_analysis.json", "write_summary")

RunWriteSummary == RunWrite("write_summary", "executive_summary.json", "exporter")

\* lines 334-342: the exporter, whose exception ends in a warning, and lines
\* 101-109: the return of execute_with_export
RunExporter ==
    /\ run_pc = "exporter"
    /\ \E ok \in BOOLEAN :
         /\ run_trace' = IF UsesExporter(run_cfg)
                         THEN Append(run_trace, [step |-> "exporter", ok |-> ok])
                         ELSE run_trace
         /\ run_files' = IF UsesExporter(run_cfg) /\ ok
                         THEN run_files \cup {"complete_analysis.html"}
                         ELSE run_files
    /\ run_pc' = "done"
    /\ run_out' = [status |-> "returned", value |-> "analysis_summary and export_paths"]
    /\ UNCHANGED run_cfg
    /\ UNCHANGED <<agentVars, svcVars, ucVars, valVars, parseVars, caVars, facVars, normVars>>

CompleteRunNext ==
    \/ RunStart
    \/ RunPdf
    \/ RunTriage
    \/ RunConsolidate
    \/ RunMkdir
    \/ RunWriteComplete
    \/ RunWriteSummary
    \/ RunExporter

\* ================================================= SimpleDependencyFactory
\* An argument left out is None ("none").  A temperature is written as the
\* cache key formats it.
DefaultModelProvider == "openai"

Providers    == { "none", "openai", "anthropic" }
ModelNames   == { "none", "gpt-4" }
Temperatures == { "none", "0.0", "0.1", "0.7" }

\* provider or self._settings.default_model_provider
ProviderOrDefault(provider) ==
    IF provider = "none" THEN DefaultModelProvider ELSE provider

\* the default only for a temperature left out
TemperatureIfNone(temperature) ==
    IF temperature = "none" THEN "0.1" ELSE temperature

\* temperature or 0.1: None and 0.0 are both falsy
TemperatureOrDefault(temperature) ==
    IF temperature = "none" \/ temperature = "0.0" THEN "0.1" ELSE temperature

\* f"{provider}:{model_name}:{temperature}"
CacheKey(provider, model_name, temperature) == <<provider, model_name, temperature>>

\* create_llm: `configured` is what validate_environment(provider) returns,
\* `available` what get_available_providers() returns
CreateLlm ==
    /\ fac_calls < MaxFactoryCalls
    /\ fac_calls' = fac_calls + 1
    /\ \E provider \in Providers, model_name \in ModelNames,
          temperature \in Temperatures, configured \in BOOLEAN,
          available \in { << >>, <<"anthropic">> } :
         LET arg       == [provider |-> provider, model_name |-> model_name,
                           temperature |-> temperature]
             p         == ProviderOrDefault(provider)
             t         == TemperatureOrDefault(temperature)
             cache_key == CacheKey(p, model_name, t)
         IN  IF cache_key \in DOMAIN llm_cache
             THEN /\ fac_call' = Call("create_llm", arg,
                                      [status |-> "returned",
                                       instance |-> llm_cache[cache_key]])
                  /\ llm_returned' = Append(llm_returned,
                                            [request |-> arg,
                                             instance |-> llm_cache[cache_key]])
                  /\ UNCHANGED <<llm_cache, llm_made>>
             ELSE IF ~configured /\ available = << >>
             THEN /\ fac_call' = Call("create_llm", arg,
                                      [status |-> "raised", instance |-> 0])
                  /\ UNCHANGED <<llm_cache, llm_made, llm_returned>>
             ELSE LET made == [ request     |-> arg,
                                provider    |-> IF configured THEN p ELSE available[1],
                                model_name  |-> model_name,
                                temperature |-> t ]
                      llm  == Len(llm_made) + 1
                  IN  /\ llm_made' = Append(llm_made, made)
                      /\ llm_cache' = (cache_key :> llm) @@ llm_cache
                      /\ llm_returned' = Append(llm_returned,
                                                [request |-> arg, instance |-> llm])
                      /\ fac_call' = Call("create_llm", arg,
                                          [status |-> "returned", instance |-> llm])
    /\ UNCHANGED <<agentVars, svcVars, ucVars, valVars, parseVars, caVars, runVars, normVars>>

\* clear_cache
ClearCache ==
    /\ fac_calls < MaxFactoryCalls
    /\ fac_calls' = fac_calls + 1
    /\ llm_cache' = << >>
    /\ llm_returned' = << >>
    /\ fac_call' = Call("clear_cache", << >>, [status |-> "returned", instance |-> 0])
    /\ UNCHANGED llm_made
    /\ UNCHANGED <<agentVars, svcVars, ucVars, valVars, parseVars, caVars, runVars, normVars>>

FactoryNext == CreateLlm \/ ClearCache

\* ================================================ SecurityAnalysisService
\* A string is the sequence of its characters.
\* SEVERITY_MAPPING, in the order of the dict; a value is SeverityLevel.X.value
SeverityMapping ==
    << [key |-> <<"c", "r", "í", "t", "i", "c", "a">>,
        value |-> <<"c", "r", "í", "t", "i", "c", "a">>],
       [key |-> <<"c", "r", "i", "t", "i", "c", "a", "l">>,
        value |-> <<"c", "r", "í", "t", "i", "c", "a">>],
       [key |-> <<"a", "l", "t", "a">>,
        value |-> <<"a", "l", "t", "a">>],
       [key |-> <<"h", "i", "g", "h">>,
        value |-> <<"a", "l", "t", "a">>],
       [key |-> <<"m", "e", "d", "i", "a">>,
        value |-> <<"m", "e", "d", "i", "a">>],
       [key |-> <<"m", "e", "d", "i", "u", "m">>,
        value |-> <<"m", "e", "d", "i", "a">>],
       [key |-> <<"b", "a", "j", "a">>,
        value |-> <<"b", "a", "j", "a">>],
       [key |-> <<"l", "o", "w">>,
        value |-> <<"b", "a", "j", "a">>],
       [key |-> <<"i", "n", "f", "o", "r", "m", "a", "t", "i", "v", "a">>,
        value |-> <<"i", "n", "f", "o", "r", "m", "a", "t", "i", "v", "a">>],
       [key |-> <<"i", "n", "f", "o">>,
        value |-> <<"i", "n", "f", "o", "r", "m", "a", "t", "i", "v", "a">>],
       [key |-> <<"i", "n", "f", "o", "r", "m", "a", "t", "i", "o", "n", "a", "l">>,
        value |-> <<"i", "n", "f", "o", "r", "m", "a", "t", "i", "v", "a">>] >>

LowerCaseLetters == <<"a", "b", "c", "d", "e", "f", "g", "h", "i", "j", "k", "l", "m", "n", "o", "p", "q", "r", "s", "t", "u", "v", "w", "x", "y", "z", "í">>
UpperCaseLetters == <<"A", "B", "C", "D", "E", "F", "G", "H", "I", "J", "K", "L", "M", "N", "O", "P", "Q", "R", "S", "T", "U", "V", "W", "X", "Y", "Z", "Í">>

\* str.lower(), character by character
LowerChar(c) ==
    IF \E i \in 1..Len(UpperCaseLetters) : UpperCaseLetters[i] = c
    THEN LowerCaseLetters[CHOOSE i \in 1..Len(UpperCaseLetters) : UpperCaseLetters[i] = c]
    ELSE c

LowerText(s) == [i \in 1..Len(s) |-> LowerChar(s[i])]

UpperText(s) ==
    [i \in 1..Len(s) |->
        IF \E k \in 1..Len(LowerCaseLetters) : LowerCaseLetters[k] = s[i]
        THEN UpperCaseLetters[CHOOSE k \in 1..Len(LowerCaseLetters) : LowerCaseLetters[k] = s[i]]
        ELSE s[i]]

\* key in severity_clean
IsSubstring(key, s) ==
    \E i \in 0..(Len(s) - Len(key)) : SubSeq(s, i + 1, i + Len(key)) = key

\* the keys of SEVERITY_MAPPING found in the cleaned string
KeysFound(severity_str) ==
    { k \in 1..Len(SeverityMapping) :
        IsSubstring(SeverityMapping[k].key, Strip(LowerText(severity_str))) }

\* _normalize_severity that returns the cleaned string when no key is found
NormalizeSeverityOrSame(severity_str) ==
    IF KeysFound(severity_str) = {}
    THEN Strip(LowerText(severity_str))
    ELSE SeverityMapping[CHOOSE k \in KeysFound(severity_str) :
                            \A j \in KeysFound(severity_str) : k <= j].value

\* _normalize_severity: the value of the first key found, else "media"
NormalizeSeverity(severity_str) ==
    IF KeysFound(severity_str) = {}
    THEN <<"m", "e", "d", "i", "a">>
    ELSE SeverityMapping[CHOOSE k \in KeysFound(severity_str) :
                            \A j \in KeysFound(severity_str) : k <= j].value

\* the strings given: the keys and some other words, in lower and upper
\* case, up to MaxWords of them joined by "/", with and without blanks around
SeverityWords ==
    { SeverityMapping[k].key : k \in 1..Len(SeverityMapping) }
    \cup { UpperText(SeverityMapping[k].key) : k \in 1..Len(SeverityMapping) }
    \cup { <<"s", "e", "v", "e", "r", "e">>, <<"b", "e", "l", "o", "w">>, <<"n", "/", "a">>, << >> }

RECURSIVE JoinWords(_)
JoinWords(words) ==
    IF Len(words) = 0 THEN << >>
    ELSE IF Len(words) = 1 THEN words[1]
    ELSE words[1] \o <<"/">> \o JoinWords(Tail(words))

SeverityStrings ==
    UNION { { JoinWords(ws) : ws \in [1..n -> SeverityWords] } : n \in 1..MaxWords }
    \cup { Sp(1) \o w \o Sp(2) : w \in SeverityWords }

CallNormalizeSeverity ==
    /\ norm_call = NoCall
    /\ \E severity_str \in SeverityStrings :
         norm_call' = Call("_normalize_severity", severity_str,
                           NormalizeSeverity(severity_str))
    /\ UNCHANGED norm_prev
    /\ UNCHANGED <<agentVars, svcVars, ucVars, valVars, parseVars, caVars, runVars, facVars>>

\* the result of a call, normalized again
CallNormalizeSeverityAgain ==
    /\ norm_call # NoCall
    /\ norm_prev = NoCall
    /\ norm_prev' = norm_call
    /\ norm_call' = Call("_normalize_severity", norm_call.out,
                         NormalizeSeverity(norm_call.out))
    /\ UNCHANGED <<agentVars, svcVars, ucVars, valVars, parseVars, caVars, runVars, facVars>>

NormalizeNext == CallNormalizeSeverity \/ CallNormalizeSeverityAgain

\* ============================================================ specifications
\* TriageAgent.analyze_vulnerabilities on one security report.
Init ==
    /\ security_report \in SecurityReports
    /\ hallazgos = << >>
    /\ triaged_vulnerabilities = << >>
    /\ failed = << >>
    /\ agent_pc = "start"
    /\ triage_report = NoReport
    /\ llm_calls = 0
    /\ svc_call = NoCall
    /\ svc_prev = NoCall
    /\ uc_call = NoCall
    /\ val_call = NoCall
    /\ val_prev = NoCall
    /\ parse_call = NoCall
    /\ ca_call = NoCall
    /\ run_cfg = NoCall
    /\ run_pc = "idle"
    /\ run_trace = << >>
    /\ run_files = {}
    /\ run_out = NoCall
    /\ llm_cache = << >>
    /\ llm_made = << >>
    /\ llm_returned = << >>
    /\ fac_calls = 0
    /\ fac_call = NoCall
    /\ norm_call = NoCall
    /\ norm_prev = NoCall

Next == AnalyzeStart \/ TriageNext \/ AnalyzeFinish

Spec == Init /\ [][Next]_vars

\* No analysis is running and no call has been made.
InitIdle ==
    /\ security_report = EmptyDict
    /\ hallazgos = << >>
    /\ triaged_vulnerabilities = << >>
    /\ failed = << >>
    /\ agent_pc = "idle"
    /\ triage_report = NoReport
    /\ llm_calls = 0
    /\ svc_call = NoCall
    /\ svc_prev = NoCall
    /\ uc_call = NoCall
    /\ val_call = NoCall
    /\ val_prev = NoCall
    /\ parse_call = NoCall
    /\ ca_call = NoCall
    /\ run_cfg = NoCall
    /\ run_pc = "idle"
    /\ run_trace = << >>
    /\ run_files = {}
    /\ run_out = NoCall
    /\ llm_cache = << >>
    /\ llm_made = << >>
    /\ llm_returned = << >>
    /\ fac_calls = 0
    /\ fac_call = NoCall
    /\ norm_call = NoCall
    /\ norm_prev = NoCall

\* Calls of the TriageService business rules.
SpecService == InitIdle /\ [][ServiceNext]_vars

\* Calls of TriageVulnerabilitiesUseCase.
SpecUseCase == InitIdle /\ [][UseCaseNext]_vars

\* Calls of ReportValidationService on security reports.
SpecValidation == InitIdle /\ [][SecurityValidationNext]_vars

\* Calls of ReportValidationService on triage reports.
SpecTriageValidation == InitIdle /\ [][TriageValidationNext]_vars

\* Calls of TriageAgent._parse_triage_response on the text of a response.
SpecParser == InitIdle /\ [][ParserNext]_vars

\* Calls of the helpers of CompleteSecurityAnalysisUseCase._consolidate_analysis.
SpecCompleteHelpers == InitIdle /\ [][CompleteHelpersNext]_vars

\* One run of CompleteSecurityAnalysisUseCase.execute or execute_with_export.
SpecCompleteRun == InitIdle /\ [][CompleteRunNext]_vars

\* Calls of create_llm and clear_cache on one SimpleDependencyFactory.
SpecFactory == InitIdle /\ [][FactoryNext]_vars

\* Calls of SecurityAnalysisService._normalize_severity, alone and on its own result.
SpecNormalize == InitIdle /\ [][NormalizeNext]_vars

\* ===================================================================== claims
SeverityRank(level) ==
    CASE level = "informativa" -> 0
      [] level = "baja"        -> 1
      [] level = "media"       -> 2
      [] level = "alta"        -> 3
      [] level = "crítica"     -> 4

\* The fallback record, by the fields the claim names.
IsFallbackRecord(v) ==
    /\ v.confianza_analisis = 100
    /\ v.requiere_validacion_manual
    /\ v.severidad_triage = "media"
    /\ v.prioridad = "P2"
    /\ v.evidencias = << >>
    /\ v.recomendaciones = << >>

\* C1: for a non-empty batch of N findings and any pattern of per-item
\* failures, analyze_vulnerabilities does not abort; the report it returns has
\* exactly N vulnerabilities, in input order, and the i-th is the fallback
\* record exactly when the processing of the i-th finding failed.
C1_PerItemFailureNeverAborts ==
    /\ (hallazgos # << >> => agent_pc # "raised")
    /\ (agent_pc = "done" =>
          /\ Len(triage_report.vulnerabilidades) = Len(hallazgos)
          /\ \A i \in 1..Len(hallazgos) :
               /\ triage_report.vulnerabilidades[i].severidad_original
                    = Get(hallazgos[i], "severidad", JStr("No especificada")).str
               /\ IsFallbackRecord(triage_report.vulnerabilidades[i]) <=> failed[i])

\* C2: every vulnerability of a returned report has a canonical severity, a
\* canonical priority and a confidence within [0,1], whatever the LLM answered.
C2_ReportValuesCanonical ==
    agent_pc = "done" =>
        \A i \in 1..Len(triage_report.vulnerabilidades) :
            LET v == triage_report.vulnerabilidades[i]
            IN  /\ v.severidad_triage \in CanonicalSeverities
                /\ v.prioridad \in CanonicalPriorities
                /\ v.confianza_analisis >= 0
                /\ v.confianza_analisis <= 1000

\* C3: in every report built by _generate_triage_report from N triaged
\* vulnerabilities, total_vulnerabilidades = N = len(vulnerabilidades) and the
\* values of each distribution sum to N, also when a severity or a priority is
\* not a recognized one.
C3_DistributionsSumToTotal ==
    agent_pc = "done" =>
        /\ triage_report.total_vulnerabilidades = Len(triaged_vulnerabilities)
        /\ triage_report.total_vulnerabilidades = Len(triage_report.vulnerabilidades)
        /\ SumValues(triage_report.distribucion_severidad)
             = triage_report.total_vulnerabilidades
        /\ SumValues(triage_report.distribucion_prioridad)
             = triage_report.total_vulnerabilidades

\* a report of several vulnerabilities, one of them with an unrecognized
\* severity and an unrecognized priority, next to recognized ones
C3_Witness ==
    /\ agent_pc = "done"
    /\ triage_report.total_vulnerabilidades >= 2
    /\ \E i \in 1..Len(triage_report.vulnerabilidades) :
         /\ triage_report.vulnerabilidades[i].severidad_triage \notin CanonicalSeverities
         /\ triage_report.vulnerabilidades[i].prioridad \notin CanonicalPriorities
    /\ \E i \in 1..Len(triage_report.vulnerabilidades) :
         triage_report.vulnerabilidades[i].severidad_triage \in CanonicalSeverities

\* C4: the distribution builders of the use case count every vulnerability of
\* a batch of N in exactly one bucket, so each distribution sums to N; an
\* unrecognized value is counted in a default bucket.
C4_DistributionBuildersTotal ==
    uc_call.op \in {"_get_severity_distribution", "_get_priority_distribution"} =>
        SumValues(uc_call.out) = Len(uc_call.arg)

\* C5: whenever the analyzer returns a report, execute applies the enhancement
\* step to every vulnerability of it and returns them in its final report.
C5_EnhancementAlwaysApplied ==
    (uc_call.op = "execute" /\ uc_call.arg.valid /\ ~uc_call.arg.analyzer.raises) =>
        /\ uc_call.out.status = "returned"
        /\ Len(uc_call.out.enhanced) = Len(uc_call.arg.analyzer.vulnerabilities)
        /\ \A i \in 1..Len(uc_call.out.enhanced) : uc_call.out.enhanced[i].enhanced

\* `plan` orders the items of `input` (each plan item i taken from input
\* perm[i]) by priority P0 < P1 < P2 < P3 < P4, stably, numbered 1..N.
IsStablePlan(input, plan, perm) ==
    /\ Len(plan) = Len(input)
    /\ DOMAIN perm = 1..Len(input)
    /\ {perm[i] : i \in 1..Len(input)} = 1..Len(input)
    /\ \A i \in 1..Len(plan) :
         /\ plan[i].orden = i
         /\ plan[i].prioridad = input[perm[i]].prioridad
    /\ \A i, j \in 1..Len(plan) :
         i < j => \/ AgentPriorityOrder(plan[i].prioridad) < AgentPriorityOrder(plan[j].prioridad)
                  \/ /\ AgentPriorityOrder(plan[i].prioridad) = AgentPriorityOrder(plan[j].prioridad)
                     /\ perm[i] < perm[j]

PermutationsOf(n) == { p \in [1..n -> 1..n] : {p[i] : i \in 1..n} = 1..n }

\* C6: TriageService.generate_remediation_plan returns one plan item per input
\* vulnerability, numbered 1..N, ordered by priority P0 < P1 < P2 < P3 < P4,
\* equal priorities in input order.
C6_ServicePlanIsStablePrioritySort ==
    svc_call.op = "generate_remediation_plan" =>
        /\ svc_call.out.status = "returned"
        /\ \E perm \in PermutationsOf(Len(svc_call.arg)) :
             /\ \A i \in 1..Len(svc_call.arg) :
                  svc_call.out.plan[i].vulnerabilidad_id
                    = svc_call.arg[perm[i]].id_vulnerabilidad
             /\ IsStablePlan([i \in 1..Len(svc_call.arg) |->
                                [prioridad |-> svc_call.arg[i].prioridad.value]],
                             svc_call.out.plan, perm)

\* The same ordering for the plan of the agent's report.
AgentPlanIsStablePrioritySort ==
    agent_pc = "done" =>
        \E perm \in PermutationsOf(Len(triage_report.vulnerabilidades)) :
            /\ \A i \in 1..Len(triage_report.plan_remediacion) :
                 triage_report.plan_remediacion[i].vulnerabilidad
                   = triage_report.vulnerabilidades[perm[i]].nombre
            /\ IsStablePlan(triage_report.vulnerabilidades,
                            triage_report.plan_remediacion, perm)

\* The matrix as the claim states it: the priorities for impact alto / medio /
\* bajo of each severity.
ClaimedPriority(severity, impact) ==
    LET row == CASE severity = "crítica"     -> <<"P0", "P0", "P1">>
                 [] severity = "alta"        -> <<"P0", "P1", "P1">>
                 [] severity = "media"       -> <<"P1", "P2", "P2">>
                 [] severity = "baja"        -> <<"P2", "P3", "P3">>
                 [] severity = "informativa" -> <<"P3", "P4", "P4">>
    IN  CASE impact = "alto"  -> row[1]
          [] impact = "medio" -> row[2]
          [] impact = "bajo"  -> row[3]

\* C7: determine_priority_level returns the matrix entry for every canonical
\* severity and every business impact alto / medio / bajo in any letter case,
\* and P3 for every other combination.
C7_PriorityMatrixTotal ==
    svc_call.op = "determine_priority_level" =>
        LET severity == svc_call.arg[1]
            impact   == Lower(svc_call.arg[2])
        IN  IF severity \in CanonicalSeverities /\ impact \in {"alto", "medio", "bajo"}
            THEN svc_call.out = ClaimedPriority(severity, impact)
            ELSE svc_call.out = "P3"

\* a canonical severity with an upper-case impact
C7_Witness ==
    /\ svc_call.op = "determine_priority_level"
    /\ svc_call.arg = <<"crítica", "ALTO">>
    /\ svc_call.out = "P0"

\* The four terms of the score as the claim states them, in tenths.
ClaimedImpact(vulnerability) ==
    LET i == IF "impacto" \in DOMAIN vulnerability THEN Lower(vulnerability["impacto"])
             ELSE "missing"
    IN  CASE i = "crítico" -> 40 [] i = "alto" -> 30 [] i = "medio" -> 20
          [] i = "bajo" -> 10 [] OTHER -> 10
ClaimedExploit(vulnerability) ==
    LET e == IF "probabilidad_explotacion" \in DOMAIN vulnerability
             THEN Lower(vulnerability["probabilidad_explotacion"]) ELSE "missing"
    IN  CASE e = "alta" -> 30 [] e = "media" -> 20 [] e = "baja" -> 10 [] OTHER -> 10
ClaimedVolume(vulnerability) ==
    LET n == IF "evidencias" \in DOMAIN vulnerability
             THEN Len(vulnerability["evidencias"]) ELSE 0
    IN  Min(5 * n, 20)
ClaimedBonus(vulnerability) ==
    IF "proof_of_concept" \in DOMAIN vulnerability THEN 10 ELSE 0

\* C8: calculate_severity_score returns min(I + E + V + B, 10.0); the result
\* is within [0,10] and the sum itself never exceeds 10.
C8_SeverityScoreFormula ==
    svc_call.op = "calculate_severity_score" =>
        LET sum == ClaimedImpact(svc_call.arg) + ClaimedExploit(svc_call.arg)
                   + ClaimedVolume(svc_call.arg) + ClaimedBonus(svc_call.arg)
        IN  /\ svc_call.out = Min(sum, 100)
            /\ svc_call.out >= 0
            /\ svc_call.out <= 100
            /\ sum <= 100
            /\ SeverityBaseScore(svc_call.arg) <= 100

\* every factor at its maximum, with more evidence than the cap counts
C8_Witness ==
    /\ svc_call.op = "calculate_severity_score"
    /\ Len(Get(svc_call.arg, "evidencias", << >>)) > 4
    /\ Lower(Get(svc_call.arg, "impacto", "")) = "crítico"
    /\ Get(svc_call.arg, "probabilidad_explotacion", "") = "alta"
    /\ "proof_of_concept" \in DOMAIN svc_call.arg
    /\ svc_call.out = 100

\* C9: determine_severity_level maps a score to its level by the thresholds
\* 9.0 / 7.0 / 4.0 / 2.0, and a higher score never gets a less severe level.
C9_SeverityLevelThresholds ==
    svc_call.op = "determine_severity_level" =>
        /\ svc_call.out = "crítica"     <=> svc_call.arg >= 90
        /\ svc_call.out = "alta"        <=> (svc_call.arg >= 70 /\ svc_call.arg < 90)
        /\ svc_call.out = "media"       <=> (svc_call.arg >= 40 /\ svc_call.arg < 70)
        /\ svc_call.out = "baja"        <=> (svc_call.arg >= 20 /\ svc_call.arg < 40)
        /\ svc_call.out = "informativa" <=> svc_call.arg < 20
        /\ svc_prev # NoCall =>
             SeverityRank(svc_prev.out) <= SeverityRank(svc_call.out)

\* two calls across the boundary 9.0
C9_Witness ==
    /\ svc_call.op = "determine_severity_level"
    /\ svc_prev # NoCall
    /\ svc_prev.arg = 89 /\ svc_prev.out = "alta"
    /\ svc_call.arg = 90 /\ svc_call.out = "crítica"

\* C10: calculate_confidence_score returns a value in [0,1] for every evidence
\* list, and appending one more evidence item never decreases it.
C10_ConfidenceBoundedMonotone ==
    svc_call.op = "calculate_confidence_score" =>
        /\ svc_call.out >= 0
        /\ svc_call.out <= 1000
        /\ svc_prev # NoCall => svc_prev.out <= svc_call.out

\* an item of an unknown type appended to a list that was already saturated
C10_Witness ==
    /\ svc_call.op = "calculate_confidence_score"
    /\ svc_prev # NoCall
    /\ svc_prev.out = 1000
    /\ Len(svc_call.arg) = 3
    /\ svc_call.arg[3] = EmptyFn

\* The per-type weight and the multiplier as the claim states them, in
\* thousandths and in tenths.
ClaimedTypeWeight(evidence) ==
    LET t == IF "tipo_evidencia" \in DOMAIN evidence THEN evidence["tipo_evidencia"]
             ELSE "missing"
    IN  CASE t = "código" -> 300 [] t = "respuesta_http" -> 200 [] t = "archivo" -> 150
          [] t = "configuración" -> 100 [] t = "base_datos" -> 250 [] OTHER -> 50
ClaimedMultiplier(evidence) ==
    LET c == IF "criticidad_evidencia" \in DOMAIN evidence
             THEN evidence["criticidad_evidencia"] ELSE "missing"
    IN  CASE c = "alto" -> 15 [] c = "medio" -> 12 [] OTHER -> 10

\* C11: calculate_confidence_score returns 0.3 for an empty evidence list and
\* otherwise min(0.5 + sum of w(type) * m(criticality), 1.0), with the
\* weights and multipliers of the claim.
C11_ConfidenceFormula ==
    svc_call.op = "calculate_confidence_score" =>
        IF svc_call.arg = << >> THEN svc_call.out = 300
        ELSE svc_call.out =
               Min(500 + SumSeq([i \in 1..Len(svc_call.arg) |->
                            (ClaimedTypeWeight(svc_call.arg[i])
                             * ClaimedMultiplier(svc_call.arg[i])) \div 10]),
                   1000)

\* two items below the clamp: an unknown type of criticality medio and a
\* file of criticality alto give 0.5 + 0.06 + 0.225
C11_Witness ==
    /\ svc_call.op = "calculate_confidence_score"
    /\ Len(svc_call.arg) = 2
    /\ svc_call.arg[1] = [tipo_evidencia |-> "desconocido", criticidad_evidencia |-> "medio"]
    /\ svc_call.arg[2] = [tipo_evidencia |-> "archivo", criticidad_evidencia |-> "alto"]
    /\ svc_call.out = 785

\* The weight of a severity as the claim states it, in tenths.
ClaimedRiskWeight(sev) ==
    CASE sev = "crítica" -> 100 [] sev = "alta" -> 70 [] sev = "media" -> 40
      [] sev = "baja" -> 20 [] sev = "informativa" -> 5

\* C12: calculate_overall_risk_score returns 0.0 for an empty batch and
\* otherwise min(mean of weight(severity) * confidence, 10.0); the result is
\* within [0,10], and one crítica vulnerability of confidence c scores 10 * c.
C12_OverallRiskScore ==
    svc_call.op = "calculate_overall_risk_score" =>
        LET batch == svc_call.arg
            n     == Len(batch)
            out   == svc_call.out
            sum   == SumSeq([i \in 1..n |-> ClaimedRiskWeight(batch[i].severidad_triage)
                                            * batch[i].confianza_analisis])
        IN  /\ out.den > 0
            /\ out.num >= 0
            /\ out.num <= 10 * RiskUnit * out.den
            /\ n = 0 => out.num = 0
            /\ n > 0 => /\ sum <= 10 * RiskUnit * n => out.num * n = sum * out.den
                        /\ sum > 10 * RiskUnit * n => out.num = 10 * RiskUnit * out.den
            /\ (n = 1 /\ batch[1].severidad_triage = "crítica") =>
                   out.num = 100 * batch[1].confianza_analisis * out.den

\* a batch of several severities, an informativa one among them
C12_Witness ==
    /\ svc_call.op = "calculate_overall_risk_score"
    /\ Len(svc_call.arg) = 3
    /\ svc_call.arg[1] = [severidad_triage |-> "crítica", confianza_analisis |-> 1000]
    /\ svc_call.arg[2] = [severidad_triage |-> "informativa", confianza_analisis |-> 350]
    /\ svc_call.arg[3] = [severidad_triage |-> "alta", confianza_analisis |-> 350]
    /\ svc_call.out = [num |-> 126250, den |-> 3]

\* The band of a score as the claim states it; the score is num/den in
\* 1/10000.
ClaimedRiskBand(num, den) ==
    IF num >= 9 * RiskUnit * den THEN "critical"
    ELSE IF num >= 7 * RiskUnit * den THEN "high"
    ELSE IF num >= 4 * RiskUnit * den THEN "medium"
    ELSE "low"

\* The level names of the code, in the claim's words.
RiskLevelName(level) ==
    CASE level \in {"crítico", "critical"} -> "critical"
      [] level \in {"alto", "high"}        -> "high"
      [] level \in {"medio", "medium"}     -> "medium"
      [] level \in {"bajo", "low"}         -> "low"
      [] OTHER                             -> "none"

\* C13 (the service): determine_overall_risk_level returns, without raising,
\* critical for a score >= 9, high for 7 <= score < 9, medium for
\* 4 <= score < 7 and low otherwise.
ServiceRiskLevelIsBandOfScore ==
    svc_call.op = "determine_overall_risk_level" =>
        /\ svc_call.out.status = "returned"
        /\ RiskLevelName(svc_call.out.level)
             = ClaimedRiskBand(svc_call.arg * 1000, 1)

\* C13 (the agent): the riesgo_general of a report is the band of its
\* score_riesgo.
AgentRiskLevelIsBandOfScore ==
    agent_pc = "done" =>
        RiskLevelName(triage_report.riesgo_general)
          = ClaimedRiskBand(triage_report.score_riesgo.num, triage_report.score_riesgo.den)

\* C13: the overall risk level is the band of the score (critical from 9,
\* high from 7, medium from 4, low below), without raising, both for
\* TriageService.determine_overall_risk_level and for the riesgo_general a
\* report of the agent stores next to its score_riesgo.
C13_RiskLevelIsBandOfScore ==
    ServiceRiskLevelIsBandOfScore /\ AgentRiskLevelIsBandOfScore

\* C14: for every batch without an informational vulnerability,
\* TriageService.calculate_overall_risk_score and
\* TriageAgent._calculate_risk_score return the same score.
C14_RiskScoresAgree ==
    (/\ svc_call.op = "risk_scores"
     /\ \A i \in 1..Len(svc_call.arg) : svc_call.arg[i].severidad_triage # "informativa")
    => svc_call.out.service.num * svc_call.out.agent.den
         = svc_call.out.agent.num * svc_call.out.service.den

\* C15: validate_security_report and validate_triage_report never raise for
\* a report built from the domain models: they return (is_valid, errors),
\* with is_valid true if and only if errors is empty.
C15_ValidatorsNeverRaise ==
    (/\ val_call.op \in {"validate_security_report", "validate_triage_report"}
     /\ BuiltFromModels(val_call.arg))
    => /\ val_call.out.status = "returned"
       /\ val_call.out.is_valid <=> val_call.out.errors = << >>

\* What the claim says of a report found valid.
MeetsSecurityReportRules(report) ==
    /\ Len(report.documento.titulo) >= 5
    /\ report.documento.autor # << >>
    /\ Len(report.hallazgos_principales) >= 1
    /\ \A i \in 1..Len(report.hallazgos_principales) :
         LET f == report.hallazgos_principales[i]
         IN  /\ Len(f.nombre) >= 3
             /\ Len(f.descripcion) >= 20
             /\ f.categoria # << >>
             /\ Lower(f.severidad) \in CanonicalSeverities
    /\ Len(report.recomendaciones) >= 1
    /\ \A i \in 1..Len(report.recomendaciones) : Len(report.recomendaciones[i].text) >= 10
    /\ Len(report.datos_tecnicos.endpoints_pruebas) >= 1
    /\ "herramientas_utilizadas" \in DOMAIN report.datos_tecnicos
    /\ Len(report.datos_tecnicos.herramientas_utilizadas) >= 1

\* The first half of C16, for the reports validate_security_report returns on.
ValidReportsMeetTheRules ==
    (/\ val_call.op = "validate_security_report"
     /\ val_call.out.status = "returned"
     /\ val_call.out.is_valid)
    => MeetsSecurityReportRules(val_call.arg)

\* C16: a report validate_security_report finds valid has a title of 5
\* characters, an author, findings with a name of 3 and a description of 20
\* characters, a category and a canonical severity, recommendations of 10
\* characters, an endpoint and a tool; a report with 1 finding and 0
\* recommendations is found invalid, with the at-least-one-recommendation error.
C16_ValidReportsAreComplete ==
    val_call.op = "validate_security_report" =>
        /\ ValidReportsMeetTheRules
        /\ (/\ Len(val_call.arg.hallazgos_principales) = 1
            /\ Len(val_call.arg.recomendaciones) = 0)
           => /\ val_call.out.status = "returned"
              /\ ~val_call.out.is_valid
              /\ \E k \in 1..Len(val_call.out.errors) :
                   val_call.out.errors[k].msg
                     = "El reporte debe contener al menos una recomendación"

\* The bonuses of a report as the claim counts them.
ClaimedBonuses(report) ==
    LET fs  == report.hallazgos_principales
        poc == Cardinality({ i \in 1..Len(fs) : fs[i].detailed_proof_of_concept # << >> })
    IN  (IF Len(fs) >= 5 THEN 1 ELSE 0)
        + (IF Len(report.recomendaciones) >= Len(fs) THEN 1 ELSE 0)
        + (IF 2 * poc >= Len(fs) THEN 1 ELSE 0)
        + (IF Cardinality({ fs[i].categoria : i \in 1..Len(fs) }) >= 3 THEN 1 ELSE 0)

\* C17: get_validation_score returns a value in [0,10] for every report:
\* max(10 - min(0.5 e, 8), 0) for an invalid report with e errors and
\* min(8 + 0.5 b, 10) for a valid report with b bonuses.
C17_ValidationScore ==
    val_call.op = "get_validation_score" =>
        /\ val_call.out.status = "returned"
        /\ val_call.out.score >= 0
        /\ val_call.out.score <= 100
        /\ LET validation == ValidateSecurityReport(val_call.arg)
               e          == Len(validation.errors)
           IN  IF validation.is_valid
               THEN val_call.out.score = Min(80 + 5 * ClaimedBonuses(val_call.arg), 100)
               ELSE val_call.out.score
                      = (IF 100 - Min(5 * e, 80) > 0 THEN 100 - Min(5 * e, 80) ELSE 0)

\* The score of C17 for the reports validate_security_report returns on.
ScoreOfValidatedReports ==
    (val_call.op = "get_validation_score" /\ ~BuiltFromModels(val_call.arg))
    => C17_ValidationScore

HasError(errors, msg, i) ==
    \E k \in 1..Len(errors) : errors[k].msg = msg /\ errors[k].i = i

\* C18: for each triaged vulnerability, validation reports a severity-score
\* error if and only if the score is outside [0,10] and a confidence error if
\* and only if the confidence is outside [0,1]; 0, 10, 0.0 and 1.0 are accepted.
C18_ScoreErrorsIffOutOfRange ==
    val_call.op = "_validate_triaged_vulnerabilities" =>
        /\ ~val_call.out.raised
        /\ \A i \in 1..Len(val_call.arg) :
             LET analysis == val_call.arg[i].analysis
             IN  /\ HasError(val_call.out.errors,
                             "El score de severidad debe estar entre 0 y 10", i)
                      <=> (analysis.severity_score < 0 \/ analysis.severity_score > 100)
                 /\ HasError(val_call.out.errors,
                             "El score de confianza debe estar entre 0 y 1", i)
                      <=> (analysis.confidence_score < 0
                           \/ analysis.confidence_score > 1000)

\* C19: triage-summary validation reports a count-mismatch error, naming the
\* declared total and the computed sum, if and only if the declared total
\* differs from the sum of the five severity counts.
C19_CountMismatchIffDifferent ==
    val_call.op = "_validate_triage_summary" =>
        LET summary  == val_call.arg
            sum      == summary.critical_count + summary.high_count
                        + summary.medium_count + summary.low_count + summary.info_count
            errors   == val_call.out.errors
            mismatch == { k \in 1..Len(errors) :
                            errors[k].msg
                              = "Inconsistencia en conteos: total != suma de severidades" }
        IN  /\ ~val_call.out.raised
            /\ mismatch # {} <=> summary.total_vulnerabilities # sum
            /\ Cardinality(mismatch) <= 1
            /\ \A k \in mismatch : /\ errors[k].a = summary.total_vulnerabilities
                                   /\ errors[k].b = sum

\* a summary declaring 5 whose counts sum to 4: one error, naming 5 and 4
C19_Witness ==
    /\ val_call.op = "_validate_triage_summary"
    /\ val_call.arg.total_vulnerabilities = 5
    /\ val_call.arg.critical_count = 1 /\ val_call.arg.high_count = 1
    /\ val_call.arg.medium_count = 1 /\ val_call.arg.low_count = 1
    /\ val_call.arg.info_count = 0
    /\ val_call.out.errors
         = <<Err("Inconsistencia en conteos: total != suma de severidades", 0, 5, 4)>>

\* The ```json blocks of a text: <<i, p, q>> with the fence at i, the "{" that
\* opens the block's object at p and a "}" at q that the closing fence follows.
FencedBlocks(text) ==
    { b \in (1..Len(text)) \X (1..Len(text)) \X (1..Len(text)) :
        /\ b[1] < b[2] /\ b[2] < b[3]
        /\ text[b[1]] = "F" /\ text[b[2]] = "{" /\ text[b[3]] = "}"
        /\ \A m \in b[1] + 1..b[2] - 1 : text[m] = " "
        /\ \E j \in b[3] + 1..Len(text) :
             /\ text[j] \in { "E", "F" }
             /\ \A m \in b[3] + 1..j - 1 : text[m] = " " }

\* the first block, up to its first closing fence
FirstFencedBlock(text) ==
    CHOOSE b \in FencedBlocks(text) :
        \A o \in FencedBlocks(text) : b[1] < o[1] \/ (b[1] = o[1] /\ b[3] <= o[3])

\* the nesting depth after position j, counting the braces from position s
Depth(text, s, j) ==
    Cardinality({ m \in s..j : OpensBrace(text[m]) })
    - Cardinality({ m \in s..j : ClosesBrace(text[m]) })

\* the first '{' of a text and the first brace after it where the depth is zero
FirstBrace(text) ==
    CHOOSE s \in 1..Len(text) :
        OpensBrace(text[s]) /\ \A m \in 1..s - 1 : ~OpensBrace(text[m])

BalancedEnds(text) ==
    { j \in FirstBrace(text)..Len(text) : Depth(text, FirstBrace(text), j) = 0 }

\* the text from the '{' of position s to the '}' of position e
TextOfSpan(text, s, e) ==
    (IF text[s] = "L" THEN <<"l">> ELSE <<text[s]>>)
    \o SubSeq(text, s + 1, e - 1)
    \o (IF text[e] = "R" THEN <<"r">> ELSE <<text[e]>>)

\* the span the claim names: [found, text]
ClaimedSpan(text) ==
    IF FencedBlocks(text) # {}
    THEN [found |-> TRUE,
          text  |-> SubSeq(text, FirstFencedBlock(text)[2], FirstFencedBlock(text)[3])]
    ELSE IF \E s \in 1..Len(text) : OpensBrace(text[s])
    THEN IF BalancedEnds(text) # {}
         THEN [found |-> TRUE,
               text  |-> TextOfSpan(text, FirstBrace(text),
                                    CHOOSE e \in BalancedEnds(text) :
                                        \A o \in BalancedEnds(text) : e <= o)]
         ELSE [found |-> FALSE, text |-> << >>]
    ELSE [found |-> FALSE, text |-> << >>]

RECURSIVE FirstNonEmptyUnder(_, _)
FirstNonEmptyUnder(report, keys) ==
    IF keys = << >> THEN << >>
    ELSE IF keys[1] \in DOMAIN report /\ report[keys[1]] # << >> THEN report[keys[1]]
    ELSE FirstNonEmptyUnder(report, Tail(keys))

\* analyze_vulnerabilities, once past the extraction, works on `claimed`: with
\* nothing claimed it has raised without a call of the LLM, and otherwise it
\* triages the claimed findings, one call each
TriagesOnly(claimed) ==
    agent_pc \in {"loop", "done", "raised"} =>
        IF claimed = << >>
        THEN agent_pc = "raised" /\ llm_calls = 0
        ELSE /\ hallazgos = claimed
             /\ llm_calls <= Len(claimed)
             /\ agent_pc = "done" => /\ llm_calls = Len(claimed)
                                     /\ Len(triaged_vulnerabilities) = Len(claimed)

\* C21: analyze_vulnerabilities triages the first non-empty list found under
\* hallazgos_principales, vulnerabilidades, findings, tried in that order, and
\* raises without a call of the LLM when none of them is non-empty.
C21_FirstNonEmptyOfThreeKeys ==
    TriagesOnly(FirstNonEmptyUnder(security_report,
                    <<"hallazgos_principales", "vulnerabilidades", "findings">>))

\* C21 amended: the list under analisis_pdf.hallazgos_principales is tried
\* second, before vulnerabilidades and findings.
C21_FirstNonEmptyOfFourPlaces ==
    TriagesOnly(FirstNonEmptyUnder(security_report,
                    <<"hallazgos_principales", "analisis_pdf", "vulnerabilidades",
                      "findings">>))

\* a report with findings under analisis_pdf and under vulnerabilidades: the
\* former are triaged
C21_Witness ==
    /\ agent_pc = "done"
    /\ DOMAIN security_report = {"analisis_pdf", "vulnerabilidades"}
    /\ security_report["analisis_pdf"] = <<Finding2>>
    /\ security_report["vulnerabilidades"] = <<Finding1>>
    /\ hallazgos = <<Finding2>>
    /\ llm_calls = 1

\* a metric of a dict, a missing one counted as 0
MetricOrZero(metrics, key) == IF key \in DOMAIN metrics THEN metrics[key] ELSE 0

\* C22: the overall quality score is 0.4 x validation_score + 0.3 x
\* coverage_score + 0.3 x (average confidence x 10) rounded to 2 decimals,
\* missing metrics counted as 0; with the two scores in [0,10] and the
\* confidence in [0,1] it lies in [0,10].
C22_OverallQualityScore ==
    ca_call.op = "_calculate_overall_quality_score" =>
        LET v == MetricOrZero(ca_call.arg[1], "validation_score")
            c == MetricOrZero(ca_call.arg[1], "coverage_score")
            t == MetricOrZero(ca_call.arg[2], "avg_confidence_score")
            exact == 4 * v * 10 + 3 * c * 10 + (3 * (t * 10)) \div 10
            score == ca_call.out
        IN  /\ 10 * score - exact <= 5
            /\ exact - 10 * score <= 5
            /\ (v \in 0..100 /\ c \in 0..100 /\ t \in 0..1000) => score \in 0..1000

\* validation 8.5, coverage 3.7, confidence 0.8: 3.4 + 1.11 + 2.4 = 6.91
C22_Witness ==
    /\ ca_call.op = "_calculate_overall_quality_score"
    /\ ca_call.arg = <<[validation_score |-> 85, coverage_score |-> 37],
                       [avg_confidence_score |-> 800]>>
    /\ ca_call.out = 691

\* the vulnerability of a report that an entry of the priorities names
NamedBy(entry, vulnerabilities) ==
    CHOOSE v \in { vulnerabilities[i] : i \in 1..Len(vulnerabilities) } :
        v.original_finding.nombre = entry.vulnerability

\* C23: the security priorities of N triaged vulnerabilities are min(5, N)
\* entries ranked 1..min(5, N), non-increasing by (severity_score,
\* confidence_score) compared lexicographically, and every vulnerability left
\* out is less than or equal to every listed one.
C23_SecurityPrioritiesTopFive ==
    ca_call.op = "_generate_security_priorities" =>
        LET vulns  == IF "vulnerabilities" \in DOMAIN ca_call.arg.triage_report
                      THEN ca_call.arg.triage_report.vulnerabilities ELSE << >>
            N      == Len(vulns)
            out    == ca_call.out
            listed == { out[k].vulnerability : k \in 1..Len(out) }
            keyOf(k) == <<NamedBy(out[k], vulns).analysis.severity_score,
                          NamedBy(out[k], vulns).analysis.confidence_score>>
            geq(a, b) == a[1] > b[1] \/ (a[1] = b[1] /\ a[2] >= b[2])
        IN  /\ Len(out) = (IF N < 5 THEN N ELSE 5)
            /\ \A k \in 1..Len(out) : out[k].rank = k
            /\ listed \subseteq 1..N
            /\ Cardinality(listed) = Len(out)
            /\ \A k \in 1..Len(out) - 1 : geq(keyOf(k), keyOf(k + 1))
            /\ \A i \in (1..N) \ listed : \A k \in 1..Len(out) :
                 geq(keyOf(k), <<vulns[i].analysis.severity_score,
                                 vulns[i].analysis.confidence_score>>)

\* six vulnerabilities, the weakest first: it is the one left out
C23_Witness ==
    /\ ca_call.op = "_generate_security_priorities"
    /\ Len(ca_call.arg.triage_report.vulnerabilities) = 6
    /\ ca_call.arg.triage_report.vulnerabilities[1].analysis.severity_score = 50
    /\ ca_call.arg.triage_report.vulnerabilities[1].analysis.confidence_score = 500
    /\ \A i \in 2..6 :
         ca_call.arg.triage_report.vulnerabilities[i].analysis.severity_score = 90
    /\ Len(ca_call.out) = 5
    /\ \A k \in 1..5 : ca_call.out[k].vulnerability # 1

\* the table of the claim: priority to estimated time
ClaimedRemediationTime(p) ==
    CASE p = "P0" -> "< 24 horas"
      [] p = "P1" -> "< 1 semana"
      [] p = "P2" -> "< 1 mes"
      [] p = "P3" -> "< 3 meses"
      [] p = "P4" -> "Cuando sea posible"

\* an item of a plan is derived from the vulnerability it names, and from it only
ItemDerivedFromOwnVulnerability(item, vulnerabilities) ==
    /\ item.vulnerabilidad_id \in 1..Len(vulnerabilities)
    /\ LET v    == vulnerabilities[item.vulnerabilidad_id]
           recs == v.recomendaciones
           k    == Len(recs)
       IN  /\ item.tiempo_estimado = ClaimedRemediationTime(v.prioridad.value)
           /\ Len(item.acciones_principales) = (IF k < 3 THEN k ELSE 3)
           /\ \A j \in 1..Len(item.acciones_principales) :
                item.acciones_principales[j] = recs[j].descripcion
           /\ \A r \in item.recursos_necesarios :
                \E j \in 1..k : r \in recs[j].recursos_necesarios
           /\ \A j \in 1..k : recs[j].recursos_necesarios \subseteq item.recursos_necesarios

\* C24: every item of a plan built by generate_remediation_plan is derived
\* from its own vulnerability only: the estimated time of its priority, the
\* descriptions of its first min(3, k) recommendations in their order, and the
\* union of the resources of its recommendations.
C24_PlanItemsFromOwnVulnerability ==
    (svc_call.op = "generate_remediation_plan" /\ svc_call.out.status = "returned")
    => /\ Len(svc_call.out.plan) = Len(svc_call.arg)
       /\ \A i \in 1..Len(svc_call.out.plan) :
            ItemDerivedFromOwnVulnerability(svc_call.out.plan[i], svc_call.arg)

\* priorities P2, P0, P1, four recommendations each: the plan names the
\* second, third and first vulnerability, with three actions each
C24_Witness ==
    /\ svc_call.op = "generate_remediation_plan"
    /\ svc_call.out.status = "returned"
    /\ Len(svc_call.arg) = 3
    /\ [i \in 1..3 |-> svc_call.arg[i].prioridad.value] = <<"P2", "P0", "P1">>
    /\ \A i \in 1..3 : Len(svc_call.arg[i].recomendaciones) = 4
    /\ [i \in 1..3 |-> svc_call.out.plan[i].vulnerabilidad_id] = <<2, 3, 1>>
    /\ [i \in 1..3 |-> svc_call.out.plan[i].tiempo_estimado]
         = <<"< 24 horas", "< 1 semana", "< 1 mes">>
    /\ \A i \in 1..3 : svc_call.out.plan[i].acciones_principales = <<"a1", "a2", "a3">>
    /\ \A i \in 1..3 : svc_call.out.plan[i].recursos_necesarios = {"equipo"}

\* the place of the step `step` that returned, in the history of a run, or 0
ReturnedAt(step) ==
    IF \E i \in 1..Len(run_trace) : run_trace[i] = [step |-> step, ok |-> TRUE]
    THEN CHOOSE i \in 1..Len(run_trace) : run_trace[i] = [step |-> step, ok |-> TRUE]
    ELSE 0

TakenAt(step) == { i \in 1..Len(run_trace) : run_trace[i].step = step }

\* PDF analysis, triage, consolidation and export in that order, each one only
\* after the one before it returned, and no file before the analysis completed
PhasesInOrder ==
    /\ \A i \in TakenAt("triage") : ReturnedAt("pdf") \in 1..i - 1
    /\ \A i \in TakenAt("consolidate") : ReturnedAt("triage") \in 1..i - 1
    /\ \A i \in TakenAt("mkdir") \cup TakenAt("write_complete")
               \cup TakenAt("write_summary") \cup TakenAt("exporter") :
         ReturnedAt("consolidate") \in 1..i - 1
    /\ run_files # {} => ReturnedAt("consolidate") # 0
    /\ \A s \in { "pdf", "triage", "consolidate" } : Cardinality(TakenAt(s)) <= 1

\* a run in which one of the steps of `steps` failed has returned nothing and
\* has raised a plain Exception whose message ends with the cause; a finished
\* run in which none failed has returned
FailuresRaised(steps) ==
    run_pc \in { "done", "raised" } =>
        IF \E i \in 1..Len(run_trace) : run_trace[i].step \in steps /\ ~run_trace[i].ok
        THEN /\ run_out.status = "raised"
             /\ run_out.type = "Exception"
             /\ \E cause \in Causes :
                  /\ Len(run_out.message) > Len(cause)
                  /\ SubSeq(run_out.message, Len(run_out.message) - Len(cause) + 1,
                            Len(run_out.message)) = cause
        ELSE run_out.status = "returned"

\* C25: the phases run in the order PDF analysis, triage, consolidation, export,
\* each only after the one before it returned, and no file is written unless
\* the whole analysis completed; a failure in any phase returns no partial
\* result and is raised as a generic exception whose message wraps the cause.
C25_PhasesInOrderFailuresRaised ==
    /\ PhasesInOrder
    /\ FailuresRaised({ "pdf", "triage", "consolidate", "mkdir", "write_complete",
                        "write_summary", "exporter" })

\* C25 amended: as C25, but a failure of the report exporter (the html and pdf
\* exports) is not raised: the run returns with the exports made until then.
C25_PhasesInOrderFailuresButExporterRaised ==
    /\ PhasesInOrder
    /\ FailuresRaised({ "pdf", "triage", "consolidate", "mkdir", "write_complete",
                        "write_summary" })

\* the analysis completed and the first file was written, the second write
\* failed: the run raised, with both contexts around the cause
C25_Witness ==
    /\ run_pc = "raised"
    /\ run_cfg.entry = "execute_with_export"
    /\ Len(run_trace) = 6
    /\ run_trace[3] = [step |-> "consolidate", ok |-> TRUE]
    /\ run_trace[6] = [step |-> "write_summary", ok |-> FALSE]
    /\ "complete_analysis.json" \in run_files
    /\ run_out.message = <<"Error exportando análisis completo", "disk full">>

\* what the evidence and the proof of concept add to the score, in tenths
EvidenceAndPoc(vulnerability) ==
    ClaimedVolume(vulnerability) + ClaimedBonus(vulnerability)

ImpactIs(vulnerability, impact) ==
    /\ "impacto" \in DOMAIN vulnerability
    /\ Lower(vulnerability["impacto"]) = impact

ExploitIs(vulnerability, exploit_prob) ==
    /\ "probabilidad_explotacion" \in DOMAIN vulnerability
    /\ Lower(vulnerability["probabilidad_explotacion"]) = exploit_prob

\* the score is at least 2.0 and its level is not informativa
ScoreAtLeastTwo ==
    /\ svc_call.out >= 20
    /\ DetermineSeverityLevel(svc_call.out) # "informativa"

\* C26: the score of calculate_severity_score is at least 2.0, so that its
\* level is never informativa, and its level is crítica only when the impact
\* is crítico, the exploit probability alta and evidence and poc add >= 2.0.
C26_CriticaOnlyForCriticoAlta ==
    svc_call.op = "calculate_severity_score" =>
        /\ ScoreAtLeastTwo
        /\ DetermineSeverityLevel(svc_call.out) = "crítica" =>
             /\ ImpactIs(svc_call.arg, "crítico")
             /\ ExploitIs(svc_call.arg, "alta")
             /\ EvidenceAndPoc(svc_call.arg) >= 20

\* C26 amended: the score is at least 2.0 and its level never informativa; the
\* level is crítica exactly when impact is crítico and probability alta with
\* evidence and poc adding >= 2.0, or when one of the two is at its top and
\* the other next to it (crítico with media, alto with alta) with evidence
\* and poc adding their maximum 3.0.
C26_CriticaForTopFactors ==
    svc_call.op = "calculate_severity_score" =>
        /\ ScoreAtLeastTwo
        /\ DetermineSeverityLevel(svc_call.out) = "crítica" <=>
             \/ /\ ImpactIs(svc_call.arg, "crítico")
                /\ ExploitIs(svc_call.arg, "alta")
                /\ EvidenceAndPoc(svc_call.arg) >= 20
             \/ /\ \/ ImpactIs(svc_call.arg, "crítico") /\ ExploitIs(svc_call.arg, "media")
                   \/ ImpactIs(svc_call.arg, "alto") /\ ExploitIs(svc_call.arg, "alta")
                /\ EvidenceAndPoc(svc_call.arg) = 30

\* impact alto, probability alta, four items of evidence and a proof of
\* concept: 3 + 3 + 2 + 1 = 9.0, crítica
C26_Witness ==
    /\ svc_call.op = "calculate_severity_score"
    /\ ImpactIs(svc_call.arg, "alto")
    /\ ExploitIs(svc_call.arg, "alta")
    /\ Len(Get(svc_call.arg, "evidencias", << >>)) = 4
    /\ "proof_of_concept" \in DOMAIN svc_call.arg
    /\ svc_call.out = 90
    /\ DetermineSeverityLevel(svc_call.out) = "crítica"

\* validate_security_report judges the report of the call valid
JudgedValid(call) ==
    LET validation == ValidateSecurityReport(call.arg)
    IN  validation.status = "returned" /\ validation.is_valid

JudgedInvalid(call) ==
    LET validation == ValidateSecurityReport(call.arg)
    IN  validation.status = "returned" /\ ~validation.is_valid

\* C27: get_validation_score is consistent with validity: a report that
\* validate_security_report judges valid scores at least as high as any
\* report it judges invalid.
C27_ValidScoresAtLeastInvalid ==
    (val_prev # NoCall /\ val_call.op = "get_validation_score") =>
        /\ (JudgedValid(val_call) /\ JudgedInvalid(val_prev)) =>
              val_call.out.score >= val_prev.out.score
        /\ (JudgedValid(val_prev) /\ JudgedInvalid(val_call)) =>
              val_prev.out.score >= val_call.out.score

\* the validators of the single fields return without an error
PassesFieldRules(report) ==
    ExtendAll(<< ValidateDocumentMetadata(report),
                 ValidateFindings(report.hallazgos_principales),
                 ValidateRecommendations(report.recomendaciones),
                 ValidateTechnicalData(report.datos_tecnicos) >>) = Errors(<< >>)

CriticalFindings(report) ==
    { i \in 1..Len(report.hallazgos_principales) :
        Lower(report.hallazgos_principales[i].severidad) = "crítica" }

\* at least half as many recommendations as findings, and at least as many
\* as findings of severity crítica
EnoughRecommendations(report) ==
    /\ 2 * Len(report.recomendaciones) >= Len(report.hallazgos_principales)
    /\ Len(report.recomendaciones) >= Cardinality(CriticalFindings(report))

\* C28: a report that validate_security_report returns valid has at least
\* half as many recommendations as findings and at least as many as crítica
\* findings, and every finding has a non-empty impact; a report that passes
\* the rules of the single fields with fewer recommendations is invalid.
C28_ValidReportsAreConsistent ==
    val_call.op = "validate_security_report" =>
        /\ (val_call.out.status = "returned" /\ val_call.out.is_valid) =>
              /\ EnoughRecommendations(val_call.arg)
              /\ \A i \in 1..Len(val_call.arg.hallazgos_principales) :
                   val_call.arg.hallazgos_principales[i].impacto # << >>
        /\ (PassesFieldRules(val_call.arg) /\ ~EnoughRecommendations(val_call.arg)) =>
              /\ val_call.out.status = "returned"
              /\ ~val_call.out.is_valid
              /\ \A k \in 1..Len(val_call.out.errors) :
                   val_call.out.errors[k].msg \in
                     { "Pocas recomendaciones para la cantidad de hallazgos",
                       "Los hallazgos críticos requieren recomendaciones específicas" }

\* three well-formed findings and one recommendation: every field in order,
\* the report invalid for its proportion alone
C28_Witness ==
    /\ val_call.op = "validate_security_report"
    /\ PassesFieldRules(val_call.arg)
    /\ Len(val_call.arg.hallazgos_principales) = MaxFindings + 1
    /\ Len(val_call.arg.recomendaciones) = 1
    /\ val_call.out.status = "returned"
    /\ ~val_call.out.is_valid
    /\ val_call.out.errors
         = <<Err("Pocas recomendaciones para la cantidad de hallazgos", 0, 1,
                 MaxFindings + 1)>>

\* what a call of create_llm asks for: the provider (the configured default
\* when left out), the model name, and the temperature, where one left out
\* means 0.1 and 0.0 is a temperature of its own
Requested(arg) ==
    [ provider    |-> ProviderOrDefault(arg.provider),
      model_name  |-> arg.model_name,
      temperature |-> TemperatureIfNone(arg.temperature) ]

\* C29: an instance is returned only to a call that asks for the provider,
\* model and temperature of the call that created it (no temperature meaning
\* 0.1, and 0.0 being another temperature); two equal calls with no
\* clear_cache in between get the same instance, and the first call after a
\* clear_cache gets a new one.
C29_CachedOnlyForEqualRequests ==
    /\ \A k \in 1..Len(llm_returned) :
         Requested(llm_returned[k].request)
           = Requested(llm_made[llm_returned[k].instance].request)
    /\ \A j, k \in 1..Len(llm_returned) :
         Requested(llm_returned[j].request) = Requested(llm_returned[k].request)
           => llm_returned[j].instance = llm_returned[k].instance
    /\ Len(llm_returned) >= 1 =>
         /\ llm_returned[1].request = llm_made[llm_returned[1].instance].request
         /\ \A i \in DOMAIN llm_cache : llm_cache[i] >= llm_returned[1].instance

\* the five canonical values, as strings of characters
CanonicalSeverityTexts ==
    { <<"c", "r", "í", "t", "i", "c", "a">>, <<"a", "l", "t", "a">>, <<"m", "e", "d", "i", "a">>, <<"b", "a", "j", "a">>,
      <<"i", "n", "f", "o", "r", "m", "a", "t", "i", "v", "a">> }

\* the level of each canonical value and of each English synonym
ClaimedLevels ==
    (<<"c", "r", "í", "t", "i", "c", "a">> :> <<"c", "r", "í", "t", "i", "c", "a">>)
    @@ (<<"a", "l", "t", "a">> :> <<"a", "l", "t", "a">>)
    @@ (<<"m", "e", "d", "i", "a">> :> <<"m", "e", "d", "i", "a">>)
    @@ (<<"b", "a", "j", "a">> :> <<"b", "a", "j", "a">>)
    @@ (<<"i", "n", "f", "o", "r", "m", "a", "t", "i", "v", "a">> :> <<"i", "n", "f", "o", "r", "m", "a", "t", "i", "v", "a">>)
    @@ (<<"c", "r", "i", "t", "i", "c", "a", "l">> :> <<"c", "r", "í", "t", "i", "c", "a">>)
    @@ (<<"h", "i", "g", "h">> :> <<"a", "l", "t", "a">>)
    @@ (<<"m", "e", "d", "i", "u", "m">> :> <<"m", "e", "d", "i", "a">>)
    @@ (<<"l", "o", "w">> :> <<"b", "a", "j", "a">>)
    @@ (<<"i", "n", "f", "o">> :> <<"i", "n", "f", "o", "r", "m", "a", "t", "i", "v", "a">>)
    @@ (<<"i", "n", "f", "o", "r", "m", "a", "t", "i", "o", "n", "a", "l">> :> <<"i", "n", "f", "o", "r", "m", "a", "t", "i", "v", "a">>)

\* none of the canonical values or synonyms occurs in the string, whatever
\* the case of its letters
NothingRecognized(s) ==
    \A w \in DOMAIN ClaimedLevels : ~IsSubstring(w, LowerText(s))

\* C30: _normalize_severity returns one of the five canonical values for
\* every string, media when nothing is recognized; a canonical value and an
\* English synonym give their own level; and a value already normalized is
\* returned unchanged.
C30_NormalizeSeverityTotalIdempotent ==
    norm_call.op = "_normalize_severity" =>
        /\ norm_call.out \in CanonicalSeverityTexts
        /\ NothingRecognized(norm_call.arg) => norm_call.out = <<"m", "e", "d", "i", "a">>
        /\ norm_call.arg \in DOMAIN ClaimedLevels =>
              norm_call.out = ClaimedLevels[norm_call.arg]
        /\ norm_call.arg \in CanonicalSeverityTexts => norm_call.out = norm_call.arg
        /\ norm_prev # NoCall =>
              /\ norm_call.arg = norm_prev.out
              /\ norm_call.out = norm_prev.out

\* " HIGH  " gives alta, and alta again alta
C30_Witness ==
    /\ norm_call.op = "_normalize_severity"
    /\ norm_prev # NoCall
    /\ norm_prev.arg = Sp(1) \o <<"H", "I", "G", "H">> \o Sp(2)
    /\ norm_prev.out = <<"a", "l", "t", "a">>
    /\ norm_call.arg = <<"a", "l", "t", "a">>
    /\ norm_call.out = <<"a", "l", "t", "a">>

=============================================================================
